---- MODULE Spec2Model ----
(***************************************************************************)
(* A state-machine model of the LQAP authentication protocol               *)
(* (shafiqahmeddev/lqap_project): the consortium ledger                    *)
(* (entity_models/blockchain.py), the protocol orchestrator                *)
(* (lqap_protocol/protocol.py) with its background maintenance thread, and *)
(* the entities it composes.                                               *)
(*                                                                         *)
(* Conventions.  time.time() is the variable now; every time.time() call   *)
(* of one atomic step reads the same value.  sha256 is modelled as an      *)
(* injective constructor (collision resistance), json.dumps(sort_keys)     *)
(* as the tuple of the fields in key order.  uuid4 and os.urandom draw     *)
(* fresh values from counters.                                             *)
(***************************************************************************)
EXTENDS Integers, Sequences, FiniteSets, TLC

(***************************************************************************)
(* Bounds of the model (not program constants).                            *)
(***************************************************************************)
\* add_transaction calls in the ledger-only specification
MaxAdds == 11
\* blocks sealed by a direct mine_block call (below the batch limit) in the ledger-only specification
MaxShortBlocks == 2
\* clock advances in the ledger-only specification
MaxLedgerTicks == 1
\* transactions the sequential protocol calls may submit
MaxSeqTx == 5
\* clock advances between the sequential protocol calls
MaxSeqTicks == 1

(***************************************************************************)
(* Program constants.                                                      *)
(***************************************************************************)
\* blockchain.py:18  self.transaction_limit = 10
transaction_limit == 10

VARIABLES
    blockchain,         \* ConsortiumBlockchain: blocks, current_block, pending_transactions
    submitted,          \* history: the entries add_transaction was asked to append, in call order
    now,                \* time.time()
    ticks,              \* history: how often the clock advanced
    faults,             \* history: how many exceptions were raised into the loop from outside
    ret,                \* the last completed foreground call and what it returned
    evs,                \* LQAPProtocol.evs: id -> ElectricVehicle
    charging_stations,  \* LQAPProtocol.charging_stations: id -> ChargingStation
    edge_nodes,         \* LQAPProtocol.edge_nodes: id -> EdgeNode
    edge_node_keys,     \* the keys of edge_nodes in insertion order (a dict keeps it)
    esps,               \* LQAPProtocol.esps: id -> ElectricServiceProvider
    ca,                 \* LQAPProtocol.ca: CertificateAuthority
    hfl,                \* LQAPProtocol.hfl: HierarchicalFederatedLearning
    urandom_count,      \* how many seeds os.urandom has drawn
    active_sessions,    \* LQAPProtocol.active_sessions: session id -> session
    uuid_count,         \* how many session ids uuid.uuid4 has drawn
    running,            \* LQAPProtocol.running
    maintenance_thread, \* LQAPProtocol.maintenance_thread: <<>> (None) or <<index into threads>>
    threads,            \* every maintenance thread ever started: position and locals
    stop_call,          \* a stop() call in progress (after the flag is cleared, inside join)
    xmss                \* the XMSS object of the signature self-test, its key pairs and its sign calls

ledgerVars == <<blockchain, submitted>>
clockVars == <<now, ticks, faults>>
entityVars == <<evs, charging_stations, edge_nodes, edge_node_keys, esps, ca, hfl, urandom_count>>
sessionVars == <<active_sessions, uuid_count>>
threadVars == <<running, maintenance_thread, threads, stop_call>>
vars == <<blockchain, submitted, now, ticks, faults, ret, evs, charging_stations, edge_nodes,
          edge_node_keys, esps, ca, hfl, urandom_count, active_sessions, uuid_count,
          running, maintenance_thread, threads, stop_call, xmss>>

(***************************************************************************)
(* Python values: None and an optional value are <<>> and <<v>>; a dict is *)
(* a function on its keys.                                                 *)
(***************************************************************************)
NoneValue == <<>>
Some(v) == <<v>>
EmptyDict == <<>>
DictPut(d, k, v) == [ x \in DOMAIN d \cup {k} |-> IF x = k THEN v ELSE d[x] ]
DictDel(d, k) == [ x \in DOMAIN d \ {k} |-> d[x] ]

(***************************************************************************)
(* Hashing and serialisation.                                              *)
(***************************************************************************)
\* hashlib.sha256(x).hexdigest(): injective in x
sha256(x) == <<"sha256", x>>

\* '0' * 64, the previous_hash of the first block
ZeroHash == <<"0">>

\* json.dumps(block, sort_keys=True) of a block body (the keys without 'hash')
block_string(b) == <<b.index, b.nonce, b.previous_hash, b.timestamp, b.transactions>>

(***************************************************************************)
(* ConsortiumBlockchain                                                    *)
(***************************************************************************)
\* __init__
NewBlockchain(t) ==
    [ blocks |-> <<>>,
      current_block |-> [ index |-> 0, timestamp |-> t, transactions |-> <<>>,
                          previous_hash |-> ZeroHash, nonce |-> 0 ],
      pending_transactions |-> <<>> ]

\* a copy of the pool that misses its oldest entry
mine_block_fill_skipping_first(bc, t) ==
    [bc EXCEPT !.current_block.transactions = Tail(bc.pending_transactions),
               !.current_block.timestamp = t]

\* mine_block, first part: the pending entries and the time go into current_block
mine_block_fill(bc, t) ==
    [bc EXCEPT !.current_block.transactions = bc.pending_transactions,
               !.current_block.timestamp = t]

\* A sealing that chains the next block to the hash of the block before the sealed one.
mine_block_seal_stale_link(bc, t) ==
    LET cur == bc.current_block
        block_hash == sha256(block_string(cur))
        sealed == [ index |-> cur.index, timestamp |-> cur.timestamp,
                    transactions |-> cur.transactions,
                    previous_hash |-> cur.previous_hash, nonce |-> cur.nonce,
                    hash |-> block_hash ]
        blocks2 == Append(bc.blocks, sealed)
    IN  [bc EXCEPT !.blocks = blocks2,
                   !.current_block = [ index |-> Len(blocks2), timestamp |-> t,
                                       transactions |-> <<>>,
                                       previous_hash |-> cur.previous_hash, nonce |-> 0 ]]

\* mine_block, second part: current_block is hashed and appended with its hash,
\* and a new current_block is opened on that hash
mine_block_seal(bc, t) ==
    LET cur == bc.current_block
        block_hash == sha256(block_string(cur))
        sealed == [ index |-> cur.index, timestamp |-> cur.timestamp,
                    transactions |-> cur.transactions,
                    previous_hash |-> cur.previous_hash, nonce |-> cur.nonce,
                    hash |-> block_hash ]
        blocks2 == Append(bc.blocks, sealed)
    IN  [bc EXCEPT !.blocks = blocks2,
                   !.current_block = [ index |-> Len(blocks2), timestamp |-> t,
                                       transactions |-> <<>>,
                                       previous_hash |-> block_hash, nonce |-> 0 ]]

\* mine_block, last part: the pending pool is replaced by an empty list
mine_block_clear(bc) == [bc EXCEPT !.pending_transactions = <<>>]

\* a mine_block that seals whatever is pending, nothing included
mine_block_unguarded(bc, t) ==
    mine_block_clear(mine_block_seal(mine_block_fill(bc, t), t))

\* mine_block run without interruption: the ledger after the call (unchanged
\* when nothing is pending)
mine_block(bc, t) ==
    IF bc.pending_transactions = <<>> THEN bc
    ELSE mine_block_clear(mine_block_seal(mine_block_fill(bc, t), t))

\* mine_block's return value: False when nothing is pending, else len(blocks)
mine_block_result(bc, t) ==
    IF bc.pending_transactions = <<>> THEN FALSE ELSE Len(mine_block(bc, t).blocks)

\* the entry add_transaction appends: the payload (stamped when it carries no
\* timestamp) and the time of the call
pending_entry(transaction, t) ==
    [ data |-> IF "timestamp" \in DOMAIN transaction
               THEN transaction
               ELSE [ k \in DOMAIN transaction \cup {"timestamp"} |->
                        IF k = "timestamp" THEN t ELSE transaction[k] ],
      timestamp |-> t ]

\* add_transaction sealing only once the pool has grown past the limit
add_transaction_past_limit(bc, transaction, t) ==
    LET bc1 == [bc EXCEPT !.pending_transactions =
                              Append(@, pending_entry(transaction, t))]
    IN  IF Len(bc1.pending_transactions) > transaction_limit
        THEN mine_block(bc1, t) ELSE bc1

\* add_transaction: the ledger after the call
add_transaction(bc, transaction, t) ==
    LET bc1 == [bc EXCEPT !.pending_transactions =
                              Append(@, pending_entry(transaction, t))]
    IN  IF Len(bc1.pending_transactions) >= transaction_limit
        THEN mine_block(bc1, t) ELSE bc1

\* verify_chain
verify_chain(bc) ==
    \A i \in 2..Len(bc.blocks) :
        /\ bc.blocks[i].previous_hash = bc.blocks[i-1].hash
        /\ sha256(block_string(bc.blocks[i])) = bc.blocks[i].hash

(***************************************************************************)
(* XMSS (crypto_components/xmss.py)                                        *)
(***************************************************************************)
\* __init__'s default tree height
XMSS_h == 10

\* XMSS(h = ...): the object, with the key pairs generated from it and the sign
\* calls made with them (history)
NewXMSS(h) == [ h |-> h, keys |-> <<>>, signed |-> <<>> ]

\* key_gen with the n-th seed drawn from os.urandom
XMSS_key_gen(n) ==
    [ public_key |-> sha256(<<"seed", n>>),
      private_key |-> [ seed |-> <<"seed", n>>, index |-> 0 ] ]

\* sign: the signature; the key afterwards is NextKey(private_key)
XMSS_sign(message, private_key) ==
    sha256(<<private_key.seed, private_key.index, message>>)

\* a sign that leaves the index where it was
NextKey_stuck(private_key) == private_key

\* private_key['index'] += 1
NextKey(private_key) == [private_key EXCEPT !.index = @ + 1]

\* verify: the stub accepts everything
XMSS_verify(message, signature, public_key) == TRUE

(***************************************************************************)
(* CertificateAuthority (lqap_protocol/protocol.py)                        *)
(***************************************************************************)
\* issue_certificate's default validity, 24 hours
CertificateValidity == 86400

NewCertificateAuthority(n) ==
    LET kp == XMSS_key_gen(n)
    IN  [ id |-> "CA", public_key |-> kp.public_key, private_key |-> kp.private_key,
          issued_certificates |-> EmptyDict ]

\* issue_certificate: the certificate, and the authority afterwards
issue_certificate(authority, subject_id, subject_public_key, t) ==
    LET cert_data == [ subject_id |-> subject_id,
                       subject_public_key |-> subject_public_key,
                       issuer_id |-> authority.id,
                       issued_at |-> t,
                       expiry |-> t + CertificateValidity ]
        certificate == [ data |-> cert_data,
                         signature |-> XMSS_sign(cert_data, authority.private_key) ]
    IN  [ certificate |-> certificate,
          ca |-> [authority EXCEPT
                    !.private_key = NextKey(@),
                    !.issued_certificates = DictPut(@, subject_id, certificate)] ]

\* verify_certificate: expiry is checked, the signature is not
verify_certificate(certificate, t) ==
    IF certificate.data.expiry < t
    THEN <<FALSE, "Certificate expired">>
    ELSE <<TRUE, "Certificate valid">>

\* revoke_certificate: whether a certificate was removed, and the authority afterwards
revoke_certificate(authority, subject_id) ==
    IF subject_id \in DOMAIN authority.issued_certificates
    THEN [ ok |-> TRUE,
           ca |-> [authority EXCEPT !.issued_certificates = DictDel(@, subject_id)] ]
    ELSE [ ok |-> FALSE, ca |-> authority ]

(***************************************************************************)
(* Entities (entity_models/)                                               *)
(***************************************************************************)
\* BaseEntity.__init__ and the subclass attributes, with the n-th seed
ElectricVehicle(ev_id, n, t) ==
    LET kp == XMSS_key_gen(n)
    IN  [ id |-> ev_id, entity_type |-> "EV", public_key |-> kp.public_key,
          private_key |-> kp.private_key, certificate |-> NoneValue, created_at |-> t,
          battery_level |-> 100, charging_status |-> "idle",
          verifiable_credential |-> NoneValue ]

ChargingStation(cs_id, n, t) ==
    LET kp == XMSS_key_gen(n)
    IN  [ id |-> cs_id, entity_type |-> "CS", public_key |-> kp.public_key,
          private_key |-> kp.private_key, certificate |-> NoneValue, created_at |-> t,
          available_power |-> 50, connected_evs |-> <<>>,
          active_charging_sessions |-> EmptyDict ]

EdgeNode(en_id, n, t) ==
    LET kp == XMSS_key_gen(n)
    IN  [ id |-> en_id, entity_type |-> "EN", public_key |-> kp.public_key,
          private_key |-> kp.private_key, certificate |-> NoneValue, created_at |-> t,
          connected_charging_stations |-> <<>>, fl_model |-> NoneValue,
          connection_logs |-> EmptyDict ]

\* energy_prices are kept in cents per kWh
ElectricServiceProvider(esp_id, n, t) ==
    LET kp == XMSS_key_gen(n)
    IN  [ id |-> esp_id, entity_type |-> "ESP", public_key |-> kp.public_key,
          private_key |-> kp.private_key, certificate |-> NoneValue, created_at |-> t,
          edge_nodes |-> <<>>, energy_prices |-> [ buy |-> 15, sell |-> 10 ],
          global_fl_model |-> NoneValue ]

\* BaseEntity.create_authentication_request: the signed request; the entity's key
\* afterwards is NextKey(entity.private_key)
create_authentication_request(entity, t) ==
    LET request == [ id |-> entity.id, type |-> entity.entity_type,
                     timestamp |-> t, certificate |-> entity.certificate ]
    IN  [ request |-> request, signature |-> XMSS_sign(request, entity.private_key) ]

\* ChargingStation.verify_authentication_request: the stub accepts everything
verify_authentication_request(auth_request) == <<TRUE, "Authentication successful">>

InSeq(x, sq) == \E i \in 1..Len(sq) : sq[i] = x
RemoveFirst(sq, x) ==
    LET i == CHOOSE j \in 1..Len(sq) : sq[j] = x /\ \A k \in 1..(j-1) : sq[k] # x
    IN  SubSeq(sq, 1, i-1) \o SubSeq(sq, i+1, Len(sq))

\* ChargingStation.connect_ev: the station afterwards
connect_ev(cs, ev_id) ==
    IF ~InSeq(ev_id, cs.connected_evs)
    THEN [cs EXCEPT !.connected_evs = Append(@, ev_id)]
    ELSE cs

\* ChargingStation.disconnect_ev: the station afterwards
disconnect_ev(cs, ev_id) ==
    IF InSeq(ev_id, cs.connected_evs)
    THEN [cs EXCEPT !.connected_evs = RemoveFirst(@, ev_id),
                    !.active_charging_sessions =
                        IF ev_id \in DOMAIN @ THEN DictDel(@, ev_id) ELSE @]
    ELSE cs

\* EdgeNode.issue_verifiable_credential's default validity, 24 hours of 3600 s
CredentialValidity == 86400

\* a credential made out to the issuing node instead of the EV
en_issue_verifiable_credential_to_self(en, ev_id, t) ==
    LET credential == [ subject_id |-> en.id, issuer_id |-> en.id, issued_at |-> t,
                        expiry |-> t + CredentialValidity, type |-> "cross-domain-auth" ]
    IN  [ credential |-> credential,
          signature |-> XMSS_sign(credential, en.private_key) ]

\* EdgeNode.issue_verifiable_credential: the credential; the node's key afterwards
\* is NextKey(en.private_key)
en_issue_verifiable_credential(en, ev_id, t) ==
    LET credential == [ subject_id |-> ev_id, issuer_id |-> en.id, issued_at |-> t,
                        expiry |-> t + CredentialValidity, type |-> "cross-domain-auth" ]
    IN  [ credential |-> credential,
          signature |-> XMSS_sign(credential, en.private_key) ]

\* EdgeNode.log_connection: the node afterwards
log_connection(en, ev_id, cs_id, t) ==
    LET logs == IF ev_id \in DOMAIN en.connection_logs
                THEN en.connection_logs ELSE DictPut(en.connection_logs, ev_id, <<>>)
    IN  [en EXCEPT !.connection_logs =
            [logs EXCEPT ![ev_id] = Append(@, [ cs_id |-> cs_id, timestamp |-> t,
                                                type |-> "authentication" ])]]

\* EdgeNode.evaluate_anomaly_score returns random.random(): any of these scores,
\* in hundredths
AnomalyScores == {80, 81}

\* str(hash(str(x)))
py_hash(x) == <<"hash", x>>

(***************************************************************************)
(* Numbers of the anomaly models: exact rationals <<numerator, denominator>> *)
(* in lowest terms, denominator positive.                                  *)
(***************************************************************************)
RECURSIVE GCD(_, _)
GCD(a, b) == IF b = 0 THEN a ELSE GCD(b, a % b)

Rat(n, d) ==
    LET g == GCD(IF n < 0 THEN -n ELSE n, d)
    IN  <<n \div g, d \div g>>

RatAdd(x, y) == Rat(x[1] * y[2] + y[1] * x[2], x[2] * y[2])

RECURSIVE RatSum(_)
RatSum(sq) == IF sq = <<>> THEN <<0, 1>> ELSE RatAdd(Head(sq), RatSum(Tail(sq)))

\* sum(xs) / len(xs), np.mean of scalars
RatMean(sq) == LET total == RatSum(sq) IN Rat(total[1], total[2] * Len(sq))

\* np.mean(vectors, axis=0)
VectorMean(vectors) ==
    [ i \in 1..Len(vectors[1]) |-> RatMean([ j \in 1..Len(vectors) |-> vectors[j][i] ]) ]

RECURSIVE SeqMax(_)
SeqMax(sq) ==
    IF Len(sq) = 1 THEN sq[1]
    ELSE LET m == SeqMax(Tail(sq)) IN IF sq[1] >= m THEN sq[1] ELSE m

(***************************************************************************)
(* AnomalyDetectionModel (federated_learning/anomaly_detection.py)         *)
(***************************************************************************)
\* __init__: version 1, no mean and no covariance yet, threshold 0.95
AnomalyDetectionModel(model_id, t) ==
    [ model_id |-> model_id, model_type |-> "anomaly_detection", version |-> 1,
      updated_at |-> t, mean_vector |-> NoneValue, cov_matrix |-> NoneValue,
      std_vector |-> NoneValue, threshold |-> <<19, 20>> ]

\* parameters that carry the standard deviations where the covariance belongs
get_model_parameters_std_as_cov(m) ==
    IF m.mean_vector = NoneValue \/ m.cov_matrix = NoneValue
    THEN [ version |-> m.version, updated_at |-> m.updated_at, trained |-> FALSE ]
    ELSE [ version |-> m.version, updated_at |-> m.updated_at, trained |-> TRUE,
           mean_vector |-> m.mean_vector[1], cov_matrix |-> m.std_vector[1],
           std_vector |-> m.std_vector[1], threshold |-> m.threshold ]

get_model_parameters(m) ==
    IF m.mean_vector = NoneValue \/ m.cov_matrix = NoneValue
    THEN [ version |-> m.version, updated_at |-> m.updated_at, trained |-> FALSE ]
    ELSE [ version |-> m.version, updated_at |-> m.updated_at, trained |-> TRUE,
           mean_vector |-> m.mean_vector[1], cov_matrix |-> m.cov_matrix[1],
           std_vector |-> m.std_vector[1], threshold |-> m.threshold ]

\* set_model_parameters: True exactly when the parameters are trained ones
set_model_parameters_result(parameters) == parameters.trained

\* an update that counts itself in the version
set_model_parameters_counting(m, parameters, t) ==
    IF ~parameters.trained THEN m
    ELSE [m EXCEPT !.mean_vector = Some(parameters.mean_vector),
                   !.cov_matrix = Some(parameters.cov_matrix),
                   !.std_vector = Some(parameters.std_vector),
                   !.threshold = parameters.threshold,
                   !.version = @ + 1,
                   !.updated_at = t]

\* set_model_parameters: the model afterwards
set_model_parameters(m, parameters, t) ==
    IF ~parameters.trained THEN m
    ELSE [m EXCEPT
            !.mean_vector = IF "mean_vector" \in DOMAIN parameters
                            THEN Some(parameters.mean_vector) ELSE @,
            !.cov_matrix = IF "cov_matrix" \in DOMAIN parameters
                           THEN Some(parameters.cov_matrix) ELSE @,
            !.std_vector = IF "std_vector" \in DOMAIN parameters
                           THEN Some(parameters.std_vector) ELSE @,
            !.threshold = IF "threshold" \in DOMAIN parameters
                          THEN parameters.threshold ELSE @,
            !.version = IF "version" \in DOMAIN parameters
                        THEN parameters.version ELSE @,
            !.updated_at = t]

\* train(data): stats are the mean, covariance and standard deviation numpy
\* computes from the data (None for no data); the threshold is chi2.ppf(0.95, 7)
train(m, stats, t) ==
    IF stats = NoneValue THEN m
    ELSE [m EXCEPT !.mean_vector = Some(stats[1].mean_vector),
                   !.cov_matrix = Some(stats[1].cov_matrix),
                   !.std_vector = Some(stats[1].std_vector),
                   !.threshold = <<14067, 1000>>,
                   !.updated_at = t,
                   !.version = @ + 1]

\* a prediction that gives the lowest score where nothing is known
predict_trusting(m, data) ==
    IF m.mean_vector = NoneValue \/ m.cov_matrix = NoneValue
    THEN [ i \in 1..Len(data) |-> <<0, 1>> ]
    ELSE [ i \in 1..Len(data) |->
             <<"clip", <<"mahalanobis", data[i], m.mean_vector[1], m.cov_matrix[1]>>,
               m.threshold>> ]

\* predict(data): one score per record; the distance of a record is kept as a term
predict(m, data) ==
    IF m.mean_vector = NoneValue \/ m.cov_matrix = NoneValue
    THEN [ i \in 1..Len(data) |-> <<1, 1>> ]
    ELSE [ i \in 1..Len(data) |->
             <<"clip", <<"mahalanobis", data[i], m.mean_vector[1], m.cov_matrix[1]>>,
               m.threshold>> ]

(***************************************************************************)
(* HierarchicalFederatedLearning (federated_learning/hierarchical_fl.py)   *)
(***************************************************************************)
\* edge_keys and local_keys are the keys of the two dicts in insertion order
NewHFL == [ global_model |-> NoneValue, edge_models |-> EmptyDict, edge_keys |-> <<>>,
            local_models |-> EmptyDict, local_keys |-> <<>> ]

initialize_global_model(h, t) ==
    [h EXCEPT !.global_model = Some(AnomalyDetectionModel("global_model", t))]

\* an edge registration that creates no model
initialize_edge_model_skipped(h, edge_id, t) == h

initialize_edge_model(h, edge_id, t) ==
    [h EXCEPT !.edge_models =
                  DictPut(@, edge_id, AnomalyDetectionModel(<<"edge_model", edge_id>>, t)),
              !.edge_keys = IF InSeq(edge_id, @) THEN @ ELSE Append(@, edge_id)]

\* a local model is named by the edge id its name starts with and a suffix
initialize_local_model(h, local_id, t) ==
    [h EXCEPT !.local_models =
                  DictPut(@, local_id, AnomalyDetectionModel(<<"local_model", local_id>>, t)),
              !.local_keys = IF InSeq(local_id, @) THEN @ ELSE Append(@, local_id)]

\* the entries of a sequence that satisfy Keep, in order
RECURSIVE SelectIds(_, _)
SelectIds(ids, keep) ==
    IF ids = <<>> THEN <<>>
    ELSE (IF Head(ids) \in keep THEN <<Head(ids)>> ELSE <<>>) \o SelectIds(Tail(ids), keep)

\* _aggregate_parameters of a non-empty list of trained parameters: the first
\* one's copy with mean_vector, std_vector and threshold averaged and the largest
\* version (cov_matrix stays the first one's)
aggregate_parameters(parameters_list, t) ==
    LET n == Len(parameters_list)
    IN  [parameters_list[1] EXCEPT
            !.mean_vector = VectorMean([ j \in 1..n |-> parameters_list[j].mean_vector ]),
            !.std_vector = VectorMean([ j \in 1..n |-> parameters_list[j].std_vector ]),
            !.threshold = RatMean([ j \in 1..n |-> parameters_list[j].threshold ]),
            !.version = SeqMax([ j \in 1..n |-> parameters_list[j].version ]),
            !.updated_at = t]

\* the parameters of the trained models among ids
TrainedParameters(models, ids) ==
    LET valid == SelectIds(ids, DOMAIN models)
        trained == SelectIds(valid, { k \in DOMAIN models :
                                        get_model_parameters(models[k]).trained })
    IN  [ j \in 1..Len(trained) |-> get_model_parameters(models[trained[j]]) ]

\* aggregate_local_models(edge_id, local_ids): the result and the registry
\* afterwards; with local_ids None, the local models whose name starts with the
\* edge's
aggregate_local_models(h, edge_id, local_ids, t) ==
    LET ids == IF local_ids = NoneValue
               THEN SelectIds(h.local_keys, { k \in DOMAIN h.local_models : k[1] = edge_id })
               ELSE local_ids[1]
    IN  IF edge_id \notin DOMAIN h.edge_models THEN [ ok |-> FALSE, h |-> h ]
        ELSE IF TrainedParameters(h.local_models, ids) = <<>> THEN [ ok |-> FALSE, h |-> h ]
        ELSE [ ok |-> TRUE,
               h |-> [h EXCEPT !.edge_models[edge_id] =
                        set_model_parameters(@,
                            aggregate_parameters(TrainedParameters(h.local_models, ids), t),
                            t)] ]

\* aggregate_edge_models returns True
aggregate_edge_models_result(h, edge_ids) ==
    /\ h.global_model # NoneValue
    /\ TrainedParameters(h.edge_models, edge_ids) # <<>>

\* an aggregation that resets the global model when it fails
aggregate_edge_models_resetting(h, edge_ids, t) ==
    IF ~aggregate_edge_models_result(h, edge_ids)
    THEN [h EXCEPT !.global_model = Some(AnomalyDetectionModel("global_model", t))]
    ELSE [h EXCEPT !.global_model =
            Some(set_model_parameters(@[1],
                    aggregate_parameters(TrainedParameters(h.edge_models, edge_ids), t), t))]

\* aggregate_edge_models: the registry afterwards
aggregate_edge_models(h, edge_ids, t) ==
    IF ~aggregate_edge_models_result(h, edge_ids) THEN h
    ELSE [h EXCEPT !.global_model =
            Some(set_model_parameters(@[1],
                    aggregate_parameters(TrainedParameters(h.edge_models, edge_ids), t), t))]

\* the edge models distribute_global_model overwrites
\* a distribution that reaches the first listed edge model only
DistributeTargets_first_only(h, edge_ids) ==
    IF h.global_model = NoneValue THEN {}
    ELSE IF ~get_model_parameters(h.global_model[1]).trained THEN {}
    ELSE IF edge_ids = <<>> THEN {}
    ELSE { k \in DOMAIN h.edge_models : k = edge_ids[1] }

DistributeTargets(h, edge_ids) ==
    IF h.global_model = NoneValue THEN {}
    ELSE IF ~get_model_parameters(h.global_model[1]).trained THEN {}
    ELSE { k \in DOMAIN h.edge_models : InSeq(k, edge_ids) }

\* a distribution that passes over the edge models that were never trained
distribute_global_model_trained_only(h, edge_ids, t) ==
    [h EXCEPT !.edge_models =
        [ k \in DOMAIN @ |->
            IF k \in DistributeTargets(h, edge_ids) /\ get_model_parameters(@[k]).trained
            THEN set_model_parameters(@[k], get_model_parameters(h.global_model[1]), t)
            ELSE @[k] ]]

\* distribute_global_model: the registry afterwards
distribute_global_model(h, edge_ids, t) ==
    [h EXCEPT !.edge_models =
        [ k \in DOMAIN @ |->
            IF k \in DistributeTargets(h, edge_ids)
            THEN set_model_parameters(@[k], get_model_parameters(h.global_model[1]), t)
            ELSE @[k] ]]

(***************************************************************************)
(* LQAPProtocol (lqap_protocol/protocol.py): the foreground operations.    *)
(* Each is one atomic step.  The state an operation works on is gathered   *)
(* in a record, so that one operation can run inside another               *)
(* (cross_domain_authentication issues a credential).                      *)
(***************************************************************************)
\* the score above which cross_domain_authentication rejects, 0.8, in hundredths
AnomalyThreshold == 80

\* the age above which the sweep ends a session, in seconds
SessionTTL == 3600

\* kinds with one more that falls through to the last branch
EntityTypes_with_unknown == {"EV", "CS", "EN", "ESP", "XX"}

EntityTypes == {"EV", "CS", "EN", "ESP"}

ProtocolState ==
    [ evs |-> evs, charging_stations |-> charging_stations, edge_nodes |-> edge_nodes,
      blockchain |-> blockchain, submitted |-> submitted,
      active_sessions |-> active_sessions, uuid_count |-> uuid_count ]

\* self.blockchain.add_transaction(tx) on a protocol state
LedgerAppend(st, tx, t) ==
    [st EXCEPT !.blockchain = add_transaction(@, tx, t),
               !.submitted = Append(@, pending_entry(tx, t))]

\* list(self.edge_nodes.keys())[0] when no edge node is named
SelectEdgeNode(en_id) == IF en_id = NoneValue THEN edge_node_keys[1] ELSE en_id[1]

\* issue_verifiable_credential(ev_id, en_id) on a protocol state: the credential
\* (None on failure), the message and the state afterwards
issue_verifiable_credential(st, ev_id, en_id, t) ==
    IF ev_id \notin DOMAIN st.evs
    THEN [ credential |-> NoneValue, message |-> "EV not found", st |-> st ]
    ELSE IF en_id = NoneValue /\ DOMAIN st.edge_nodes = {}
    THEN [ credential |-> NoneValue, message |-> "No edge nodes available", st |-> st ]
    ELSE IF SelectEdgeNode(en_id) \notin DOMAIN st.edge_nodes
    THEN [ credential |-> NoneValue, message |-> "Edge node not found", st |-> st ]
    ELSE LET chosen == SelectEdgeNode(en_id)
             credential == en_issue_verifiable_credential(st.edge_nodes[chosen], ev_id, t)
             st1 == [st EXCEPT !.edge_nodes[chosen].private_key = NextKey(@),
                               !.evs[ev_id].verifiable_credential = Some(credential)]
             tx == [ type |-> "credential_issuance", ev_id |-> ev_id, en_id |-> chosen,
                     credential_id |-> py_hash(credential), timestamp |-> t ]
         IN  [ credential |-> Some(credential),
               message |-> "Credential issued successfully",
               st |-> LedgerAppend(st1, tx, t) ]

\* a failed authentication: no session
AuthFailure(message, st) ==
    [ ok |-> FALSE, message |-> message, session_id |-> NoneValue,
      anomaly_score |-> NoneValue, st |-> st ]

\* a session id numbered by the sessions now active, not drawn afresh
NewSessionId_by_count(st) == Cardinality(DOMAIN st.active_sessions) + 1

\* the session id str(uuid.uuid4()) draws: a fresh one
NewSessionId(st) == st.uuid_count + 1

\* the tail both authentications share: allocate the session, connect the EV,
\* record the authentication
OpenSession(st, ev_id, cs_id, session, tx_extra, message, score, t) ==
    LET session_id == NewSessionId(st)
        st1 == [st EXCEPT !.uuid_count = @ + 1,
                          !.active_sessions = DictPut(@, session_id, session),
                          !.charging_stations[cs_id] = connect_ev(@, ev_id)]
        tx == [ k \in {"type", "mode", "ev_id", "cs_id", "session_id", "timestamp"}
                        \cup DOMAIN tx_extra |->
                  CASE k = "type" -> "authentication"
                    [] k = "mode" -> session.type
                    [] k = "ev_id" -> ev_id
                    [] k = "cs_id" -> cs_id
                    [] k = "session_id" -> session_id
                    [] k = "timestamp" -> t
                    [] OTHER -> tx_extra[k] ]
    IN  [ ok |-> TRUE, message |-> message, session_id |-> Some(session_id),
          anomaly_score |-> score, st |-> LedgerAppend(st1, tx, t) ]

\* intra_domain_authentication(ev_id, cs_id)
intra_domain_authentication(st, ev_id, cs_id, t) ==
    IF ev_id \notin DOMAIN st.evs THEN AuthFailure("EV not found", st)
    ELSE IF cs_id \notin DOMAIN st.charging_stations
    THEN AuthFailure("Charging station not found", st)
    ELSE LET auth_request == create_authentication_request(st.evs[ev_id], t)
             st1 == [st EXCEPT !.evs[ev_id].private_key = NextKey(@)]
             verdict == verify_authentication_request(auth_request)
         IN  IF ~verdict[1] THEN AuthFailure(verdict[2], st1)
             ELSE OpenSession(st1, ev_id, cs_id,
                              [ ev_id |-> ev_id, cs_id |-> cs_id, created_at |-> t,
                                type |-> "intra_domain" ],
                              EmptyDict, "Authentication successful", NoneValue, t)

\* f"Failed to issue credential: {message}"
FailedToIssue(message) ==
    CASE message = "No edge nodes available" ->
            "Failed to issue credential: No edge nodes available"
      [] message = "Edge node not found" ->
            "Failed to issue credential: Edge node not found"
      [] OTHER -> "Failed to issue credential: EV not found"

\* a gate that already rejects at 0.8
AnomalyRejected_inclusive(anomaly_score) == anomaly_score >= AnomalyThreshold

\* anomaly_score > 0.8
AnomalyRejected(anomaly_score) == anomaly_score > AnomalyThreshold

\* cross_domain_authentication(ev_id, cs_id, en_id), and anomaly_score the value
\* en.evaluate_anomaly_score returns when the call gets that far
cross_domain_authentication(st, ev_id, cs_id, en_id, anomaly_score, t) ==
    IF ev_id \notin DOMAIN st.evs THEN AuthFailure("EV not found", st)
    ELSE IF cs_id \notin DOMAIN st.charging_stations
    THEN AuthFailure("Charging station not found", st)
    ELSE LET needed == st.evs[ev_id].verifiable_credential = NoneValue
             issued == issue_verifiable_credential(st, ev_id, en_id, t)
         IN
         IF needed /\ issued.credential = NoneValue
         THEN AuthFailure(FailedToIssue(issued.message), st)
         ELSE LET st1 == IF needed THEN issued.st ELSE st
                  auth_request == create_authentication_request(st1.evs[ev_id], t)
                  st2 == [st1 EXCEPT !.evs[ev_id].private_key = NextKey(@)]
              IN
              IF en_id = NoneValue /\ DOMAIN st2.edge_nodes = {}
              THEN AuthFailure("No edge nodes available", st2)
              ELSE IF SelectEdgeNode(en_id) \notin DOMAIN st2.edge_nodes
              THEN AuthFailure("Edge node not found", st2)
              ELSE LET chosen == SelectEdgeNode(en_id)
                       verdict == verify_authentication_request(auth_request)
                       st3 == [st2 EXCEPT !.edge_nodes[chosen] =
                                              log_connection(@, ev_id, cs_id, t)]
                   IN
                   IF ~verdict[1] THEN AuthFailure(verdict[2], st2)
                   ELSE IF AnomalyRejected(anomaly_score)
                   THEN [ AuthFailure("Authentication rejected due to anomalous behavior",
                              LedgerAppend(st3,
                                  [ type |-> "authentication_failure",
                                    mode |-> "cross_domain",
                                    reason |-> "anomaly_detected",
                                    ev_id |-> ev_id, cs_id |-> cs_id, en_id |-> chosen,
                                    anomaly_score |-> anomaly_score,
                                    timestamp |-> t ], t))
                          EXCEPT !.anomaly_score = Some(anomaly_score) ]
                   ELSE OpenSession(st3, ev_id, cs_id,
                                    [ ev_id |-> ev_id, cs_id |-> cs_id, created_at |-> t,
                                      type |-> "cross_domain", en_id |-> chosen ],
                                    [ en_id |-> chosen ],
                                    "Cross-domain authentication successful",
                                    Some(anomaly_score), t)

\* end_session on an id that is not active: nothing changes
SessionNotFound_logged(st, session_id, t) ==
    [ ok |-> FALSE, message |-> "Session not found",
      st |-> LedgerAppend(st, [ type |-> "session_end", session_id |-> session_id,
                                timestamp |-> t ], t) ]

SessionNotFound(st, session_id, t) ==
    [ ok |-> FALSE, message |-> "Session not found", st |-> st ]

\* end_session on an active id, with the final del forgotten
CloseSession_kept(st, session_id, t) ==
    LET session_info == st.active_sessions[session_id]
        ev_id == session_info.ev_id
        cs_id == session_info.cs_id
        st1 == IF cs_id \in DOMAIN st.charging_stations /\ ev_id \in DOMAIN st.evs
               THEN [st EXCEPT !.charging_stations[cs_id] = disconnect_ev(@, ev_id)]
               ELSE st
        st2 == LedgerAppend(st1,
                   [ type |-> "session_end", session_id |-> session_id,
                     ev_id |-> ev_id, cs_id |-> cs_id,
                     duration |-> t - session_info.created_at, timestamp |-> t ], t)
    IN  [ ok |-> TRUE, message |-> "Session ended successfully", st |-> st2 ]

\* end_session on an active id: disconnect the EV, record the end, drop the session
CloseSession(st, session_id, t) ==
    LET session_info == st.active_sessions[session_id]
        ev_id == session_info.ev_id
        cs_id == session_info.cs_id
        st1 == IF cs_id \in DOMAIN st.charging_stations /\ ev_id \in DOMAIN st.evs
               THEN [st EXCEPT !.charging_stations[cs_id] = disconnect_ev(@, ev_id)]
               ELSE st
        st2 == LedgerAppend(st1,
                   [ type |-> "session_end", session_id |-> session_id,
                     ev_id |-> ev_id, cs_id |-> cs_id,
                     duration |-> t - session_info.created_at, timestamp |-> t ], t)
    IN  [ ok |-> TRUE, message |-> "Session ended successfully",
          st |-> [st2 EXCEPT !.active_sessions = DictDel(@, session_id)] ]

\* end_session(session_id)
end_session(st, session_id, t) ==
    IF session_id \notin DOMAIN st.active_sessions
    THEN SessionNotFound(st, session_id, t)
    ELSE CloseSession(st, session_id, t)

(***************************************************************************)
(* The state after LQAPProtocol() is constructed.                          *)
(***************************************************************************)
Init ==
    /\ evs = EmptyDict
    /\ charging_stations = EmptyDict
    /\ edge_nodes = EmptyDict
    /\ edge_node_keys = <<>>
    /\ esps = EmptyDict
    /\ ca = NewCertificateAuthority(1)
    /\ urandom_count = 1
    /\ blockchain = NewBlockchain(0)
    /\ hfl = initialize_global_model(NewHFL, 0)
    /\ active_sessions = EmptyDict
    /\ uuid_count = 0
    /\ running = FALSE
    /\ maintenance_thread = NoneValue
    /\ threads = <<>>
    /\ stop_call = [ pc |-> "idle" ]
    /\ submitted = <<>>
    /\ now = 0
    /\ ticks = 0
    /\ faults = 0
    /\ ret = [ op |-> "init" ]
    /\ xmss = NewXMSS(XMSS_h)

(***************************************************************************)
(* The clock.                                                              *)
(***************************************************************************)
Tick(d) ==
    /\ now' = now + d
    /\ ticks' = ticks + 1
    /\ UNCHANGED <<faults, ledgerVars, entityVars, sessionVars, threadVars, xmss, ret>>

(***************************************************************************)
(* The foreground calls as actions.                                        *)
(***************************************************************************)
\* the ids callers use
EVIds == {"ev1"}
CSIds == {"cs1"}
ENIds == {"en1"}
ESPIds == {"esp1"}
IdsOf(entity_type) ==
    CASE entity_type = "EV" -> EVIds
      [] entity_type = "CS" -> CSIds
      [] entity_type = "EN" -> ENIds
      [] OTHER -> ESPIds
\* an edge node argument: None or an id
ENArgs == {NoneValue} \cup { Some(e) : e \in ENIds }

ApplyState(st) ==
    /\ evs' = st.evs
    /\ charging_stations' = st.charging_stations
    /\ edge_nodes' = st.edge_nodes
    /\ blockchain' = st.blockchain
    /\ submitted' = st.submitted
    /\ active_sessions' = st.active_sessions
    /\ uuid_count' = st.uuid_count

\* register_entity(entity_type, entity_id) with an explicit id
RegisterEntity(entity_type, entity_id) ==
    IF entity_type \in EntityTypes
    THEN LET n == urandom_count + 1
             built == CASE entity_type = "EV" -> ElectricVehicle(entity_id, n, now)
                        [] entity_type = "CS" -> ChargingStation(entity_id, n, now)
                        [] entity_type = "EN" -> EdgeNode(entity_id, n, now)
                        [] OTHER -> ElectricServiceProvider(entity_id, n, now)
             issued == issue_certificate(ca, entity_id, built.public_key, now)
             entity == [built EXCEPT !.certificate = issued.certificate]
             tx == [ type |-> "registration", entity_type |-> entity_type,
                     entity_id |-> entity_id, timestamp |-> now ]
         IN  /\ evs' = IF entity_type = "EV" THEN DictPut(evs, entity_id, entity) ELSE evs
             /\ charging_stations' = IF entity_type = "CS"
                                     THEN DictPut(charging_stations, entity_id, entity)
                                     ELSE charging_stations
             /\ edge_nodes' = IF entity_type = "EN"
                              THEN DictPut(edge_nodes, entity_id, entity) ELSE edge_nodes
             /\ edge_node_keys' = IF entity_type = "EN" /\ ~InSeq(entity_id, edge_node_keys)
                                  THEN Append(edge_node_keys, entity_id) ELSE edge_node_keys
             /\ esps' = IF entity_type = "ESP" THEN DictPut(esps, entity_id, entity) ELSE esps
             /\ hfl' = IF entity_type = "EN"
                       THEN initialize_edge_model(hfl, entity_id, now) ELSE hfl
             /\ ca' = issued.ca
             /\ urandom_count' = n
             /\ blockchain' = add_transaction(blockchain, tx, now)
             /\ submitted' = Append(submitted, pending_entry(tx, now))
             /\ ret' = [ op |-> "register_entity", entity_type |-> entity_type,
                         entity_id |-> entity_id, raised |-> FALSE, result |-> entity.id ]
             /\ UNCHANGED <<sessionVars, threadVars, clockVars, xmss>>
    ELSE /\ ret' = [ op |-> "register_entity", entity_type |-> entity_type,
                     entity_id |-> entity_id, raised |-> TRUE ]
         /\ UNCHANGED <<ledgerVars, entityVars, sessionVars, threadVars, clockVars, xmss>>

IssueVerifiableCredential(ev_id, en_id) ==
    LET out == issue_verifiable_credential(ProtocolState, ev_id, en_id, now)
    IN  /\ ApplyState(out.st)
        /\ ret' = [ op |-> "issue_verifiable_credential", ev_id |-> ev_id, en_id |-> en_id,
                    ok |-> out.credential # NoneValue, message |-> out.message ]
        /\ UNCHANGED <<edge_node_keys, esps, ca, hfl, urandom_count, threadVars, clockVars, xmss>>

IntraDomainAuthentication(ev_id, cs_id) ==
    LET out == intra_domain_authentication(ProtocolState, ev_id, cs_id, now)
    IN  /\ ApplyState(out.st)
        /\ ret' = [ op |-> "intra_domain_authentication", ev_id |-> ev_id, cs_id |-> cs_id,
                    ok |-> out.ok, message |-> out.message, session_id |-> out.session_id ]
        /\ UNCHANGED <<edge_node_keys, esps, ca, hfl, urandom_count, threadVars, clockVars, xmss>>

CrossDomainAuthentication(ev_id, cs_id, en_id, anomaly_score) ==
    LET out == cross_domain_authentication(ProtocolState, ev_id, cs_id, en_id,
                                           anomaly_score, now)
    IN  /\ ApplyState(out.st)
        /\ ret' = [ op |-> "cross_domain_authentication", ev_id |-> ev_id, cs_id |-> cs_id,
                    en_id |-> en_id, ok |-> out.ok, message |-> out.message,
                    session_id |-> out.session_id, anomaly_score |-> out.anomaly_score ]
        /\ UNCHANGED <<edge_node_keys, esps, ca, hfl, urandom_count, threadVars, clockVars, xmss>>

EndSession(session_id) ==
    LET out == end_session(ProtocolState, session_id, now)
    IN  /\ ApplyState(out.st)
        /\ ret' = [ op |-> "end_session", session_id |-> session_id,
                    ok |-> out.ok, message |-> out.message ]
        /\ UNCHANGED <<edge_node_keys, esps, ca, hfl, urandom_count, threadVars, clockVars, xmss>>

\* update_fl_model(log_data, en_id): the node's own local model, named after the
\* node alone, is created when missing, trained on the data (stats, None for no
\* data) and aggregated into the node's edge model; the registry afterwards
update_fl_model(h, stats, chosen, t) ==
    LET local_model_id == <<chosen>>
        h1 == IF local_model_id \in DOMAIN h.local_models THEN h
              ELSE initialize_local_model(h, local_model_id, t)
        h2 == [h1 EXCEPT !.local_models[local_model_id] = train(@, stats, t)]
    IN  aggregate_local_models(h2, chosen, Some(<<local_model_id>>), t).h

UpdateFlModel(stats, en_id) ==
    IF en_id = NoneValue /\ DOMAIN edge_nodes = {}
    THEN /\ ret' = [ op |-> "update_fl_model", en_id |-> en_id, ok |-> FALSE,
                     message |-> "No edge nodes available" ]
         /\ UNCHANGED <<ledgerVars, entityVars, sessionVars, threadVars, clockVars, xmss>>
    ELSE IF SelectEdgeNode(en_id) \notin DOMAIN edge_nodes
    THEN /\ ret' = [ op |-> "update_fl_model", en_id |-> en_id, ok |-> FALSE,
                     message |-> "Edge node not found" ]
         /\ UNCHANGED <<ledgerVars, entityVars, sessionVars, threadVars, clockVars, xmss>>
    ELSE LET chosen == SelectEdgeNode(en_id)
             updated == update_fl_model(hfl, stats, chosen, now)
             tx == [ type |-> "fl_model_update", en_id |-> chosen, model_id |-> chosen,
                     model_hash |-> py_hash(get_model_parameters(updated.edge_models[chosen])),
                     timestamp |-> now ]
         IN  /\ hfl' = updated
             /\ blockchain' = add_transaction(blockchain, tx, now)
             /\ submitted' = Append(submitted, pending_entry(tx, now))
             /\ ret' = [ op |-> "update_fl_model", en_id |-> en_id, ok |-> TRUE,
                         message |-> <<"Model updated successfully for edge node", chosen>> ]
             /\ UNCHANGED <<evs, charging_stations, edge_nodes, edge_node_keys, esps, ca,
                            urandom_count, sessionVars, threadVars, clockVars, xmss>>

\* a status query that finds nobody
get_entity_status_nobody(entity_type, entity_id) ==
    [ status |-> NoneValue, message |-> "EV not found" ]

\* get_entity_status(entity_type, entity_id): the snapshot (None on failure) and
\* the message
get_entity_status(entity_type, entity_id) ==
    LET SessionsWith(field) ==
            SelectIds([ i \in 1..uuid_count |-> i ],
                      { sid \in DOMAIN active_sessions :
                          active_sessions[sid][field] = entity_id })
    IN
    IF entity_type = "EV"
    THEN IF entity_id \notin DOMAIN evs
         THEN [ status |-> NoneValue, message |-> "EV not found" ]
         ELSE [ status |-> Some([ id |-> evs[entity_id].id,
                                  type |-> "EV",
                                  battery_level |-> evs[entity_id].battery_level,
                                  charging_status |-> evs[entity_id].charging_status,
                                  has_credential |->
                                      evs[entity_id].verifiable_credential # NoneValue,
                                  active_sessions |-> SessionsWith("ev_id") ]),
                message |-> "EV status retrieved" ]
    ELSE IF entity_type = "CS"
    THEN IF entity_id \notin DOMAIN charging_stations
         THEN [ status |-> NoneValue, message |-> "Charging station not found" ]
         ELSE [ status |-> Some([ id |-> charging_stations[entity_id].id,
                                  type |-> "CS",
                                  available_power |->
                                      charging_stations[entity_id].available_power,
                                  connected_evs |->
                                      charging_stations[entity_id].connected_evs,
                                  active_sessions |-> SessionsWith("cs_id") ]),
                message |-> "Charging station status retrieved" ]
    ELSE IF entity_type = "EN"
    THEN IF entity_id \notin DOMAIN edge_nodes
         THEN [ status |-> NoneValue, message |-> "Edge node not found" ]
         ELSE [ status |-> Some([ id |-> edge_nodes[entity_id].id,
                                  type |-> "EN",
                                  connected_charging_stations |->
                                      edge_nodes[entity_id].connected_charging_stations,
                                  connection_logs |->
                                      [ k \in DOMAIN edge_nodes[entity_id].connection_logs |->
                                          Len(edge_nodes[entity_id].connection_logs[k]) ],
                                  has_fl_model |-> entity_id \in DOMAIN hfl.edge_models ]),
                message |-> "Edge node status retrieved" ]
    ELSE IF entity_type = "ESP"
    THEN IF entity_id \notin DOMAIN esps
         THEN [ status |-> NoneValue, message |-> "Electric service provider not found" ]
         ELSE [ status |-> Some([ id |-> esps[entity_id].id,
                                  type |-> "ESP",
                                  edge_nodes |-> esps[entity_id].edge_nodes,
                                  energy_prices |-> esps[entity_id].energy_prices,
                                  has_global_model |-> hfl.global_model # NoneValue ]),
                message |-> "Electric service provider status retrieved" ]
    ELSE [ status |-> NoneValue, message |-> <<"Unsupported entity type: ", entity_type>> ]

GetEntityStatus(entity_type, entity_id) ==
    LET out == get_entity_status(entity_type, entity_id)
    IN  /\ ret' = [ op |-> "get_entity_status", entity_type |-> entity_type,
                    entity_id |-> entity_id, raised |-> FALSE,
                    status |-> out.status, message |-> out.message ]
        /\ UNCHANGED <<ledgerVars, entityVars, sessionVars, threadVars, clockVars, xmss>>

(***************************************************************************)
(* The ledger alone: sequential add_transaction and mine_block calls on    *)
(* the fresh ConsortiumBlockchain (the self-test of blockchain.py).        *)
(***************************************************************************)
\* the k-th payload of the self-test, without or with a timestamp of its own
TestPayloads(k) == { [ id |-> k, type |-> "test" ],
                     [ id |-> k, type |-> "test", timestamp |-> now ] }

LedgerAdd ==
    /\ Len(submitted) < MaxAdds
    /\ \E tx \in TestPayloads(Len(submitted) + 1) :
          /\ blockchain' = add_transaction(blockchain, tx, now)
          /\ submitted' = Append(submitted, pending_entry(tx, now))
          /\ ret' = [ op |-> "add_transaction",
                      result |-> Len(blockchain'.pending_transactions) ]
    /\ UNCHANGED <<entityVars, sessionVars, threadVars, clockVars, xmss>>

\* the blocks sealed below the batch limit, by a direct mine_block call
ShortBlocks(bc) ==
    Cardinality({ i \in 1..Len(bc.blocks) :
                    Len(bc.blocks[i].transactions) < transaction_limit })

LedgerMine ==
    /\ blockchain.pending_transactions # <<>> => ShortBlocks(blockchain) < MaxShortBlocks
    /\ blockchain' = mine_block(blockchain, now)
    /\ ret' = [ op |-> "mine_block", pending |-> Len(blockchain.pending_transactions),
                result |-> mine_block_result(blockchain, now) ]
    /\ UNCHANGED <<submitted, entityVars, sessionVars, threadVars, clockVars, xmss>>

LedgerTick ==
    /\ ticks < MaxLedgerTicks
    /\ Tick(1)

NextLedger == LedgerAdd \/ LedgerMine \/ LedgerTick

SpecLedger == Init /\ [][NextLedger]_vars

(***************************************************************************)
(* The protocol's calls one after another, no maintenance thread running.  *)
(***************************************************************************)
SeqTickSteps == {CertificateValidity + 1}

SeqRegister ==
    /\ Len(submitted) < MaxSeqTx
    /\ \E entity_type \in EntityTypes \cup {"XX"} :
          \E entity_id \in IdsOf(entity_type) : RegisterEntity(entity_type, entity_id)

SeqIssue ==
    /\ Len(submitted) < MaxSeqTx
    /\ \E ev_id \in EVIds, en_id \in ENArgs : IssueVerifiableCredential(ev_id, en_id)

SeqIntra ==
    /\ Len(submitted) < MaxSeqTx
    /\ \E ev_id \in EVIds, cs_id \in CSIds : IntraDomainAuthentication(ev_id, cs_id)

SeqCross ==
    /\ Len(submitted) + 1 < MaxSeqTx
    /\ \E ev_id \in EVIds, cs_id \in CSIds, en_id \in ENArgs, score \in AnomalyScores :
          CrossDomainAuthentication(ev_id, cs_id, en_id, score)

SeqEnd ==
    /\ Len(submitted) < MaxSeqTx
    /\ \E session_id \in 1..(uuid_count + 1) : EndSession(session_id)

SeqTick ==
    /\ ticks < MaxSeqTicks
    /\ \E d \in SeqTickSteps : Tick(d)

NextSeq == SeqRegister \/ SeqIssue \/ SeqIntra \/ SeqCross \/ SeqEnd \/ SeqTick

SpecSeq == Init /\ [][NextSeq]_vars

(***************************************************************************)
(* The maintenance thread (LQAPProtocol._maintenance_loop) beside the      *)
(* foreground caller.  Nothing in the code locks, so the thread's work is  *)
(* split where the foreground can get in between: at each read or write of *)
(* a structure the foreground calls use.  A thread is its position (pc),   *)
(* the exception its handler holds, and the locals of                      *)
(* _cleanup_expired_sessions and of the end_session it calls.  Iterating   *)
(* active_sessions.items() walks the dict's entries in insertion order,    *)
(* which is the order of the session ids drawn, and fails with             *)
(* RuntimeError once the dict's size differs from the size at the start.   *)
(* sleep(10) is left by a step of its own; the clock moves by Tick.        *)
(***************************************************************************)
NewThread ==
    [ pc |-> "loop", error |-> NoneValue, current_time |-> NoneValue,
      expired |-> <<>>, it_size |-> 0, it_pos |-> 0, session_info |-> NoneValue ]

At(i, pc) == i \in DOMAIN threads /\ threads[i].pc = pc
SetThread(i, th) == threads' = [threads EXCEPT ![i] = th]
Goto(i, pc) == SetThread(i, [threads[i] EXCEPT !.pc = pc])

\* the positions inside mine_block, and inside _cleanup_expired_sessions
MineBlockPcs == {"mb_fill", "mb_seal", "mb_clear"}
SweepPcs == {"sw_iter", "es_check", "es_read", "es_disconnect", "es_tx", "es_del"}
\* the positions inside the try block of the loop
TryPcs == {"mine", "fl", "sw_begin"} \cup MineBlockPcs \cup SweepPcs

\* an exception leaves the frames it passes: their locals are gone
Raised(th, e) == [NewThread EXCEPT !.pc = "except", !.error = Some(e)]

\* a handler that lets the exception through: the thread dies
OnException_uncaught(th) == [th EXCEPT !.pc = "exited"]

\* except Exception as e: print(...), and on to the sleep; e is unbound again
OnException(th) == [th EXCEPT !.pc = "sleep", !.error = NoneValue]

\* _cleanup_expired_sessions returns: the cycle's work is over
SweepDone(th) == [NewThread EXCEPT !.pc = "sleep"]

\* while self.running:
Loop(i) ==
    /\ At(i, "loop")
    /\ Goto(i, IF running THEN "mine" ELSE "exited")
    /\ UNCHANGED <<ledgerVars, entityVars, sessionVars, clockVars, xmss, ret,
                   running, maintenance_thread, stop_call>>

\* if self.blockchain.pending_transactions:
MineCheck(i) ==
    /\ At(i, "mine")
    /\ Goto(i, IF blockchain.pending_transactions # <<>> THEN "mb_fill" ELSE "fl")
    /\ UNCHANGED <<ledgerVars, entityVars, sessionVars, clockVars, xmss, ret,
                   running, maintenance_thread, stop_call>>

\* mine_block: if not pending: return False; else copy the pool into current_block
MbFill(i) ==
    /\ At(i, "mb_fill")
    /\ IF blockchain.pending_transactions = <<>>
       THEN Goto(i, "fl") /\ UNCHANGED blockchain
       ELSE Goto(i, "mb_seal") /\ blockchain' = mine_block_fill(blockchain, now)
    /\ UNCHANGED <<submitted, entityVars, sessionVars, clockVars, xmss, ret,
                   running, maintenance_thread, stop_call>>

\* mine_block: hash, append, open the next block
MbSeal(i) ==
    /\ At(i, "mb_seal")
    /\ Goto(i, "mb_clear")
    /\ blockchain' = mine_block_seal(blockchain, now)
    /\ UNCHANGED <<submitted, entityVars, sessionVars, clockVars, xmss, ret,
                   running, maintenance_thread, stop_call>>

\* mine_block: self.pending_transactions = []
MbClear(i) ==
    /\ At(i, "mb_clear")
    /\ Goto(i, "fl")
    /\ blockchain' = mine_block_clear(blockchain)
    /\ UNCHANGED <<submitted, entityVars, sessionVars, clockVars, xmss, ret,
                   running, maintenance_thread, stop_call>>

\* if self.edge_nodes: aggregate_edge_models(edge_ids); distribute_global_model(edge_ids)
FlUpdate(i) ==
    /\ At(i, "fl")
    /\ Goto(i, "sw_begin")
    /\ hfl' = IF edge_nodes # EmptyDict
              THEN distribute_global_model(
                       aggregate_edge_models(hfl, edge_node_keys, now), edge_node_keys, now)
              ELSE hfl
    /\ UNCHANGED <<ledgerVars, evs, charging_stations, edge_nodes, edge_node_keys, esps, ca,
                   urandom_count, sessionVars, clockVars, xmss, ret,
                   running, maintenance_thread, stop_call>>

\* _cleanup_expired_sessions: current_time, expired_sessions = [], iter(items())
SwBegin(i) ==
    /\ At(i, "sw_begin")
    /\ SetThread(i, [threads[i] EXCEPT !.pc = "sw_iter",
                                       !.current_time = Some(now),
                                       !.expired = <<>>,
                                       !.it_size = Cardinality(DOMAIN active_sessions),
                                       !.it_pos = 0])
    /\ UNCHANGED <<ledgerVars, entityVars, sessionVars, clockVars, xmss, ret,
                   running, maintenance_thread, stop_call>>

\* one round of the for loop over active_sessions.items()
SwIter(i) ==
    /\ At(i, "sw_iter")
    /\ LET th == threads[i]
           rest == { s \in DOMAIN active_sessions : s > th.it_pos }
           session_id == CHOOSE s \in rest : \A r \in rest : s <= r
       IN  IF Cardinality(DOMAIN active_sessions) # th.it_size
           THEN SetThread(i, Raised(th, "RuntimeError"))
           ELSE IF rest # {}
           THEN SetThread(i, [th EXCEPT
                    !.it_pos = session_id,
                    !.expired = IF th.current_time[1] - active_sessions[session_id].created_at
                                      > SessionTTL
                                THEN Append(@, session_id) ELSE @])
           ELSE IF th.expired # <<>>
           THEN SetThread(i, [th EXCEPT !.pc = "es_check"])
           ELSE SetThread(i, SweepDone(th))
    /\ UNCHANGED <<ledgerVars, entityVars, sessionVars, clockVars, xmss, ret,
                   running, maintenance_thread, stop_call>>

\* the sweep's end_session(session_id) has returned: on to the next expired session
AfterEndSession(th) ==
    IF Tail(th.expired) = <<>> THEN SweepDone(th)
    ELSE [th EXCEPT !.pc = "es_check", !.expired = Tail(@), !.session_info = NoneValue]

\* end_session: if session_id not in self.active_sessions: return False, ...
EsCheck(i) ==
    /\ At(i, "es_check")
    /\ LET th == threads[i]
       IN  IF Head(th.expired) \notin DOMAIN active_sessions
           THEN SetThread(i, AfterEndSession(th))
           ELSE SetThread(i, [th EXCEPT !.pc = "es_read"])
    /\ UNCHANGED <<ledgerVars, entityVars, sessionVars, clockVars, xmss, ret,
                   running, maintenance_thread, stop_call>>

\* end_session: session_info = self.active_sessions[session_id]
EsRead(i) ==
    /\ At(i, "es_read")
    /\ LET th == threads[i]
       IN  IF Head(th.expired) \notin DOMAIN active_sessions
           THEN SetThread(i, Raised(th, "KeyError"))
           ELSE SetThread(i, [th EXCEPT !.pc = "es_disconnect",
                                        !.session_info = Some(active_sessions[Head(th.expired)])])
    /\ UNCHANGED <<ledgerVars, entityVars, sessionVars, clockVars, xmss, ret,
                   running, maintenance_thread, stop_call>>

\* end_session: disconnect the EV from the CS
EsDisconnect(i) ==
    /\ At(i, "es_disconnect")
    /\ LET info == threads[i].session_info[1]
       IN  charging_stations' =
               IF info.cs_id \in DOMAIN charging_stations /\ info.ev_id \in DOMAIN evs
               THEN [charging_stations EXCEPT ![info.cs_id] = disconnect_ev(@, info.ev_id)]
               ELSE charging_stations
    /\ Goto(i, "es_tx")
    /\ UNCHANGED <<ledgerVars, evs, edge_nodes, edge_node_keys, esps, ca, hfl,
                   urandom_count, sessionVars, clockVars, xmss, ret,
                   running, maintenance_thread, stop_call>>

\* end_session: the session_end transaction
EsTx(i) ==
    /\ At(i, "es_tx")
    /\ LET th == threads[i]
           info == th.session_info[1]
           tx == [ type |-> "session_end", session_id |-> Head(th.expired),
                   ev_id |-> info.ev_id, cs_id |-> info.cs_id,
                   duration |-> now - info.created_at, timestamp |-> now ]
       IN  /\ blockchain' = add_transaction(blockchain, tx, now)
           /\ submitted' = Append(submitted, pending_entry(tx, now))
    /\ Goto(i, "es_del")
    /\ UNCHANGED <<entityVars, sessionVars, clockVars, xmss, ret,
                   running, maintenance_thread, stop_call>>

\* end_session: del self.active_sessions[session_id]
EsDel(i) ==
    /\ At(i, "es_del")
    /\ LET th == threads[i]
       IN  IF Head(th.expired) \notin DOMAIN active_sessions
           THEN SetThread(i, Raised(th, "KeyError")) /\ UNCHANGED active_sessions
           ELSE /\ active_sessions' = DictDel(active_sessions, Head(th.expired))
                /\ SetThread(i, AfterEndSession(th))
    /\ UNCHANGED <<ledgerVars, entityVars, uuid_count, clockVars, xmss, ret,
                   running, maintenance_thread, stop_call>>

\* except Exception as e: print
HandleException(i) ==
    /\ At(i, "except")
    /\ SetThread(i, OnException(threads[i]))
    /\ UNCHANGED <<ledgerVars, entityVars, sessionVars, clockVars, xmss, ret,
                   running, maintenance_thread, stop_call>>

\* time.sleep(10) returns
Wake(i) ==
    /\ At(i, "sleep")
    /\ Goto(i, "loop")
    /\ UNCHANGED <<ledgerVars, entityVars, sessionVars, clockVars, xmss, ret,
                   running, maintenance_thread, stop_call>>

\* a step of thread i
ThreadStep(i) ==
    \/ Loop(i) \/ MineCheck(i) \/ MbFill(i) \/ MbSeal(i) \/ MbClear(i) \/ FlUpdate(i)
    \/ SwBegin(i) \/ SwIter(i) \/ EsCheck(i) \/ EsRead(i) \/ EsDisconnect(i) \/ EsTx(i)
    \/ EsDel(i) \/ HandleException(i) \/ Wake(i)

\* start()
Start ==
    /\ IF running
       THEN /\ ret' = [ op |-> "start", result |-> FALSE ]
            /\ UNCHANGED threadVars
       ELSE /\ running' = TRUE
            /\ threads' = Append(threads, NewThread)
            /\ maintenance_thread' = Some(Len(threads) + 1)
            /\ ret' = [ op |-> "start", result |-> TRUE ]
            /\ UNCHANGED stop_call
    /\ UNCHANGED <<ledgerVars, entityVars, sessionVars, clockVars, xmss>>

\* stop(), up to the join: the flag is cleared; without a thread it returns at once
StopBegin ==
    /\ running' = FALSE
    /\ IF maintenance_thread # NoneValue
       THEN stop_call' = [ pc |-> "join" ] /\ UNCHANGED ret
       ELSE ret' = [ op |-> "stop", result |-> TRUE ] /\ UNCHANGED stop_call
    /\ UNCHANGED <<ledgerVars, entityVars, sessionVars, clockVars, xmss, maintenance_thread, threads>>

\* stop(): join returns because the thread has ended
JoinReturn ==
    /\ stop_call.pc = "join"
    /\ At(maintenance_thread[1], "exited")
    /\ stop_call' = [ pc |-> "idle" ]
    /\ ret' = [ op |-> "stop", result |-> TRUE ]
    /\ UNCHANGED <<ledgerVars, entityVars, sessionVars, clockVars, xmss,
                   running, maintenance_thread, threads>>

\* stop(): join(timeout=5) gives up: the thread is inside its sleep(10) for those 5 s
JoinTimeout ==
    /\ stop_call.pc = "join"
    /\ At(maintenance_thread[1], "sleep")
    /\ stop_call' = [ pc |-> "idle" ]
    /\ ret' = [ op |-> "stop", result |-> TRUE ]
    /\ UNCHANGED <<ledgerVars, entityVars, sessionVars, clockVars, xmss,
                   running, maintenance_thread, threads>>

(***************************************************************************)
(* The protocol with its maintenance thread: one foreground caller, whose  *)
(* calls are single steps, and the threads start() has spawned.            *)
(***************************************************************************)
\* transactions in the ledger's history up to which the foreground still calls
MaxThreadTx == 4
\* clock advances beside the maintenance thread
MaxThreadTicks == 1
\* start() calls that spawn a thread
MaxStarts == 1

ThreadTickSteps == {SessionTTL + 1}
ThreadEntityTypes == {"EV", "CS", "EN"}

ThStart ==
    /\ stop_call.pc = "idle"
    /\ ~running => Len(threads) < MaxStarts
    /\ Start

ThStop ==
    /\ stop_call.pc = "idle"
    /\ StopBegin

\* register_entity, each entity once
FgRegister(max_tx) ==
    /\ stop_call.pc = "idle"
    /\ Len(submitted) < max_tx
    /\ \E entity_type \in ThreadEntityTypes :
          \E entity_id \in IdsOf(entity_type) :
              /\ entity_id \notin DOMAIN evs \cup DOMAIN charging_stations \cup DOMAIN edge_nodes
              /\ RegisterEntity(entity_type, entity_id)

FgIntra(max_tx) ==
    /\ stop_call.pc = "idle"
    /\ Len(submitted) < max_tx
    /\ \E ev_id \in EVIds, cs_id \in CSIds : IntraDomainAuthentication(ev_id, cs_id)

FgEnd(max_tx) ==
    /\ stop_call.pc = "idle"
    /\ Len(submitted) < max_tx
    /\ \E session_id \in 1..uuid_count : EndSession(session_id)

ThRegister == FgRegister(MaxThreadTx)
ThIntra == FgIntra(MaxThreadTx)
ThEnd == FgEnd(MaxThreadTx)

ThTick ==
    /\ ticks < MaxThreadTicks
    /\ \E d \in ThreadTickSteps : Tick(d)

ThMaintenance == \E i \in DOMAIN threads : ThreadStep(i)

NextThread ==
    \/ ThStart \/ ThStop \/ JoinReturn \/ JoinTimeout
    \/ ThRegister \/ ThIntra \/ ThEnd \/ ThTick
    \/ ThMaintenance

SpecThread == Init /\ [][NextThread]_vars

(***************************************************************************)
(* The same, where any statement inside the loop's try block may raise,    *)
(* and where every thread that can take a step eventually takes one: the   *)
(* scheduler runs a started thread, and sleep(10) returns.                 *)
(***************************************************************************)
\* exceptions raised into the loop from outside
MaxFaults == 1

\* a statement of the try block raises an Exception
Fault(i) ==
    /\ faults < MaxFaults
    /\ i \in DOMAIN threads
    /\ threads[i].pc \in TryPcs
    /\ SetThread(i, Raised(threads[i], "Exception"))
    /\ faults' = faults + 1
    /\ UNCHANGED <<ledgerVars, entityVars, sessionVars, xmss, now, ticks, ret,
                   running, maintenance_thread, stop_call>>

ThFault == \E i \in DOMAIN threads : Fault(i)

\* transactions in the ledger's history up to which the foreground still calls,
\* beside a maintenance thread that may fail
MaxFaultTx == 3

FRegister == FgRegister(MaxFaultTx)
FIntra == FgIntra(MaxFaultTx)

NextFaults ==
    \/ ThStart \/ ThStop \/ JoinReturn \/ JoinTimeout
    \/ FRegister \/ FIntra \/ ThTick
    \/ ThMaintenance \/ ThFault

SpecFaults ==
    /\ Init
    /\ [][NextFaults]_vars
    /\ \A i \in 1..MaxStarts : WF_vars(ThreadStep(i))

(***************************************************************************)
(* The signature self-test (test_crypto.py, xmss.py __main__): an XMSS     *)
(* object, key pairs generated from it, messages signed and verified.      *)
(***************************************************************************)
\* key pairs the self-test generates
MaxKeys == 2
\* sign calls the self-test makes
MaxSigns == 3

\* xmss = XMSS(h = h)
XmssNew(h) ==
    /\ xmss.keys = <<>>
    /\ xmss.h # h
    /\ xmss' = NewXMSS(h)
    /\ ret' = [ op |-> "XMSS", h |-> h ]
    /\ UNCHANGED <<ledgerVars, entityVars, sessionVars, threadVars, clockVars>>

\* public_key, private_key = xmss.key_gen()
XmssKeyGen ==
    /\ Len(xmss.keys) < MaxKeys
    /\ LET pair == XMSS_key_gen(urandom_count + 1)
       IN  /\ xmss' = [xmss EXCEPT !.keys = Append(@, pair)]
           /\ urandom_count' = urandom_count + 1
           /\ ret' = [ op |-> "key_gen", public_key |-> pair.public_key ]
    /\ UNCHANGED <<ledgerVars, evs, charging_stations, edge_nodes, edge_node_keys, esps, ca, hfl,
                   sessionVars, threadVars, clockVars>>

\* signature = xmss.sign(message, private_key) with the k-th key pair
XmssSign(k, message) ==
    /\ k \in DOMAIN xmss.keys
    /\ Len(xmss.signed) < MaxSigns
    /\ LET private_key == xmss.keys[k].private_key
           signature == XMSS_sign(message, private_key)
       IN  /\ xmss' = [xmss EXCEPT
                         !.keys[k].private_key = NextKey(private_key),
                         !.signed = Append(@, [ key |-> k, index |-> private_key.index,
                                                message |-> message, signature |-> signature ])]
           /\ ret' = [ op |-> "sign", key |-> k, message |-> message,
                       signature |-> signature, raised |-> FALSE ]
    /\ UNCHANGED <<ledgerVars, entityVars, sessionVars, threadVars, clockVars>>

\* result = xmss.verify(message, signature, public_key) with the k-th public key
\* and a signature some sign call returned
XmssVerify(message, j, k) ==
    /\ k \in DOMAIN xmss.keys
    /\ j \in DOMAIN xmss.signed
    /\ ret' = [ op |-> "verify", key |-> k, message |-> message,
                signature |-> xmss.signed[j].signature,
                result |-> XMSS_verify(message, xmss.signed[j].signature,
                                       xmss.keys[k].public_key) ]
    /\ UNCHANGED <<ledgerVars, entityVars, sessionVars, threadVars, clockVars, xmss>>

NextCrypto ==
    \/ \E h \in {1} : XmssNew(h)
    \/ XmssKeyGen
    \/ \E k \in 1..MaxKeys, message \in {"m1", "m2"} : XmssSign(k, message)
    \/ \E message \in {"m1", "m2"}, j \in 1..MaxSigns, k \in 1..MaxKeys :
          XmssVerify(message, j, k)

SpecCrypto == Init /\ [][NextCrypto]_vars

(***************************************************************************)
(* The ledger with a sealed block altered behind its back: one field of    *)
(* one block of an intact chain is overwritten with another value, and     *)
(* verify_chain() is called.                                               *)
(***************************************************************************)
TamperBlock(i, field) ==
    /\ i \in DOMAIN blockchain.blocks
    /\ \A j \in DOMAIN blockchain.blocks :
          /\ blockchain.blocks[j].hash = sha256(block_string(blockchain.blocks[j]))
          /\ j > 1 => blockchain.blocks[j].previous_hash = blockchain.blocks[j-1].hash
    /\ LET block == blockchain.blocks[i]
           altered == CASE field = "transactions" -> Tail(block.transactions)
                        [] field = "timestamp" -> block.timestamp + 1
                        [] field = "index" -> block.index + 1
                        [] field = "previous_hash" -> sha256(<<"altered", block.previous_hash>>)
                        [] field = "hash" -> sha256(<<"altered", block.hash>>)
       IN  /\ blockchain' = [blockchain EXCEPT !.blocks[i][field] = altered]
           /\ ret' = [ op |-> "tamper", block |-> i, field |-> field,
                       result |-> verify_chain(blockchain') ]
    /\ UNCHANGED <<submitted, entityVars, sessionVars, threadVars, clockVars, xmss>>

SpecTamper ==
    /\ Init
    /\ [][ \/ NextLedger
           \/ \E i \in 1..(MaxShortBlocks + 1),
                 field \in {"transactions", "timestamp", "index", "previous_hash", "hash"} :
                 TamperBlock(i, field) ]_vars

(***************************************************************************)
(* The protocol called sequentially with ids that may or may not be        *)
(* registered, and its status queries: the entities are registered in the  *)
(* order of run_system_test (EV, CS, EN, ESP), each once.                  *)
(***************************************************************************)
\* transactions in the ledger's history up to which calls are made
MaxStatusTx == 5
\* authentication requests an EV signs before cross-domain calls stop
MaxStatusSigns == 2
\* clock advances between the calls, each past the lifetime of a credential
MaxStatusTicks == 1

SpecStatus ==
    /\ Init
    /\ [][ \/ /\ Len(submitted) < MaxStatusTx
              /\ \E k \in 1..4 :
                    /\ k = 1 + Cardinality(DOMAIN evs) + Cardinality(DOMAIN charging_stations)
                             + Cardinality(DOMAIN edge_nodes) + Cardinality(DOMAIN esps)
                    /\ \E entity_id \in IdsOf(<<"EV", "CS", "EN", "ESP">>[k]) :
                          RegisterEntity(<<"EV", "CS", "EN", "ESP">>[k], entity_id)
           \/ /\ Len(submitted) < MaxStatusTx
              /\ \E ev_id \in EVIds, en_id \in ENArgs \cup {Some("en2")} :
                    IssueVerifiableCredential(ev_id, en_id)
           \/ /\ Len(submitted) < MaxStatusTx
              /\ \E ev_id \in EVIds, cs_id \in CSIds : IntraDomainAuthentication(ev_id, cs_id)
           \/ /\ Len(submitted) < MaxStatusTx
              /\ \E ev_id \in EVIds, cs_id \in CSIds, en_id \in ENArgs \cup {Some("en2")} :
                    /\ ev_id \in DOMAIN evs => evs[ev_id].private_key.index < MaxStatusSigns
                    /\ CrossDomainAuthentication(ev_id, cs_id, en_id, AnomalyThreshold)
           \/ /\ Len(submitted) < MaxStatusTx
              /\ \E session_id \in 1..(uuid_count + 1) : EndSession(session_id)
           \/ \E entity_type \in EntityTypes \cup {"XX"},
                 entity_id \in EVIds \cup CSIds \cup ENIds \cup ESPIds :
                 GetEntityStatus(entity_type, entity_id)
           \/ /\ ticks < MaxStatusTicks
              /\ Tick(CredentialValidity + 1) ]_vars

(***************************************************************************)
(* The federated-learning registry alone (the self-test of                 *)
(* hierarchical_fl.py): two edge models and two local models are created   *)
(* in the self-test's order, local models are trained, and parameters are  *)
(* aggregated upwards and distributed downwards.  Vectors have two         *)
(* components, numbers are fractions.                                      *)
(***************************************************************************)
\* the version up to which local models are trained
MaxFLVersion == 2
\* the denominator up to which edge means are aggregated again (a mean of means
\* that was distributed and is aggregated again halves the distance each time)
MaxFLDenominator == 1

\* initialize_edge_model(id) / initialize_local_model(id)
FlInitialize(tier, id) ==
    /\ hfl' = IF tier = "edge" THEN initialize_edge_model(hfl, id, now)
              ELSE initialize_local_model(hfl, id, now)
    /\ ret' = [ op |-> "initialize", tier |-> tier, id |-> id ]
    /\ UNCHANGED <<ledgerVars, evs, charging_stations, edge_nodes, edge_node_keys, esps, ca,
                   urandom_count, sessionVars, threadVars, clockVars, xmss>>

\* train_local_model(local_id, data)
FlTrainLocal(local_id, stats) ==
    /\ local_id \in DOMAIN hfl.local_models => hfl.local_models[local_id].version < MaxFLVersion
    /\ hfl' = IF local_id \in DOMAIN hfl.local_models
              THEN [hfl EXCEPT !.local_models[local_id] = train(@, stats, now)]
              ELSE hfl
    /\ ret' = [ op |-> "train_local_model", local_id |-> local_id,
                result |-> local_id \in DOMAIN hfl.local_models /\ stats # NoneValue ]
    /\ UNCHANGED <<ledgerVars, evs, charging_stations, edge_nodes, edge_node_keys, esps, ca,
                   urandom_count, sessionVars, threadVars, clockVars, xmss>>

\* aggregate_local_models(edge_id, local_ids)
FlAggregateLocal(edge_id, local_ids) ==
    LET out == aggregate_local_models(hfl, edge_id, local_ids, now)
    IN  /\ hfl' = out.h
        /\ ret' = [ op |-> "aggregate_local_models", edge_id |-> edge_id,
                    ids |-> local_ids, result |-> out.ok ]
        /\ UNCHANGED <<ledgerVars, evs, charging_stations, edge_nodes, edge_node_keys, esps,
                       ca, urandom_count, sessionVars, threadVars, clockVars, xmss>>

\* aggregate_edge_models(edge_ids)
FlAggregateEdge(edge_ids) ==
    LET ids == IF edge_ids = NoneValue THEN hfl.edge_keys ELSE edge_ids[1]
    IN  /\ hfl' = aggregate_edge_models(hfl, ids, now)
        /\ ret' = [ op |-> "aggregate_edge_models", ids |-> edge_ids,
                    result |-> aggregate_edge_models_result(hfl, ids) ]
        /\ UNCHANGED <<ledgerVars, evs, charging_stations, edge_nodes, edge_node_keys, esps,
                       ca, urandom_count, sessionVars, threadVars, clockVars, xmss>>

\* distribute_global_model(edge_ids)
FlDistribute(edge_ids) ==
    LET ids == IF edge_ids = NoneValue THEN hfl.edge_keys ELSE edge_ids[1]
    IN  /\ hfl' = distribute_global_model(hfl, ids, now)
        /\ ret' = [ op |-> "distribute_global_model", ids |-> edge_ids,
                    result |-> Len(SelectIds(ids, DistributeTargets(hfl, ids))) ]
        /\ UNCHANGED <<ledgerVars, evs, charging_stations, edge_nodes, edge_node_keys, esps,
                       ca, urandom_count, sessionVars, threadVars, clockVars, xmss>>

\* model.set_model_parameters(model.get_model_parameters()) on an edge model
FlSetGet(edge_id) ==
    /\ edge_id \in DOMAIN hfl.edge_models
    /\ LET parameters == get_model_parameters(hfl.edge_models[edge_id])
       IN  /\ hfl' = [hfl EXCEPT !.edge_models[edge_id] =
                                     set_model_parameters(@, parameters, now)]
           /\ ret' = [ op |-> "set_get", edge_id |-> edge_id,
                       result |-> set_model_parameters_result(parameters) ]
    /\ UNCHANGED <<ledgerVars, evs, charging_stations, edge_nodes, edge_node_keys, esps, ca,
                   urandom_count, sessionVars, threadVars, clockVars, xmss>>

\* model.predict(data) on an edge model
FlPredict(edge_id, data) ==
    /\ edge_id \in DOMAIN hfl.edge_models
    /\ ret' = [ op |-> "predict", edge_id |-> edge_id, data |-> data,
                scores |-> predict(hfl.edge_models[edge_id], data) ]
    /\ UNCHANGED <<ledgerVars, entityVars, sessionVars, threadVars, clockVars, xmss>>

SpecFL ==
    /\ Init
    /\ [][ \/ \E k \in 1..4 :
                 /\ k = 1 + Len(hfl.edge_keys) + Len(hfl.local_keys)
                 /\ FlInitialize(<<"edge", "edge", "local", "local">>[k],
                                 <<"en1", "en2", <<"en1", 1>>, <<"en1", 2>> >>[k])
           \/ \E id \in {<<"en1", 1>>, <<"en1", 2>>},
                 stats \in { NoneValue,
                             Some([ mean_vector |-> << <<1, 1>>, <<1, 1>> >>,
                                    cov_matrix |-> << << <<1, 1>>, <<0, 1>> >>,
                                                      << <<0, 1>>, <<1, 1>> >> >>,
                                    std_vector |-> << <<1, 1>>, <<1, 1>> >> ]),
                             Some([ mean_vector |-> << <<3, 1>>, <<3, 1>> >>,
                                    cov_matrix |-> << << <<4, 1>>, <<0, 1>> >>,
                                                      << <<0, 1>>, <<4, 1>> >> >>,
                                    std_vector |-> << <<2, 1>>, <<2, 1>> >> ]) } :
                 FlTrainLocal(id, stats)
           \/ \E edge_id \in {"en1", "en2"},
                 ids \in { NoneValue, Some(<<>>), Some(<< <<"en1", 2>>, <<"en1", 1>> >>),
                           Some(<< <<"en1", 2>> >>) } :
                 FlAggregateLocal(edge_id, ids)
           \/ /\ \A e \in DOMAIN hfl.edge_models :
                    hfl.edge_models[e].mean_vector # NoneValue =>
                        \A i \in 1..2 :
                            hfl.edge_models[e].mean_vector[1][i][2] <= MaxFLDenominator
              /\ \E ids \in { NoneValue, Some(<<>>), Some(<<"en1">>), Some(<<"en2", "en1">>) } :
                    FlAggregateEdge(ids)
           \/ \E ids \in { NoneValue, Some(<<>>), Some(<<"en1">>), Some(<<"en2", "en1">>) } :
                 FlDistribute(ids)
           \/ \E edge_id \in {"en1", "en2"} : FlSetGet(edge_id)
           \/ \E edge_id \in {"en1", "en2"},
                 data \in { <<>>, <<"r1", "r2">> } : FlPredict(edge_id, data) ]_vars

(***************************************************************************)
(* The certificate authority on its own: certificates are issued,          *)
(* presented for verification (as issued, or altered, or signed with       *)
(* another key) and revoked, while the clock runs past their validity.     *)
(***************************************************************************)
MaxCAIssues == 3
MaxCATicks == 2

\* what can be presented: the stored certificates, each also with its subject or
\* its expiry rewritten, or with a signature made with a key of another seed
PresentedCertificates ==
    LET stored == { ca.issued_certificates[s] : s \in DOMAIN ca.issued_certificates }
    IN  stored
        \cup { [c EXCEPT !.data.subject_id = "mallory"] : c \in stored }
        \cup { [c EXCEPT !.data.expiry = @ + CertificateValidity] : c \in stored }
        \cup { [c EXCEPT !.signature = XMSS_sign(c.data, XMSS_key_gen(2).private_key)] :
                 c \in stored }

CaIssue(subject_id) ==
    LET issued == issue_certificate(ca, subject_id, sha256(<<"public_key", subject_id>>), now)
    IN  /\ ca.private_key.index < MaxCAIssues
        /\ ca' = issued.ca
        /\ ret' = [ op |-> "issue_certificate", subject_id |-> subject_id,
                    certificate |-> issued.certificate ]
        /\ UNCHANGED <<ledgerVars, clockVars, evs, charging_stations, edge_nodes,
                       edge_node_keys, esps, hfl, urandom_count, sessionVars, threadVars, xmss>>

CaVerify(certificate) ==
    /\ ret' = [ op |-> "verify_certificate", certificate |-> certificate,
                result |-> verify_certificate(certificate, now) ]
    /\ UNCHANGED <<ledgerVars, clockVars, entityVars, sessionVars, threadVars, xmss>>

CaRevoke(subject_id) ==
    LET revoked == revoke_certificate(ca, subject_id)
    IN  /\ ca' = revoked.ca
        /\ ret' = [ op |-> "revoke_certificate", subject_id |-> subject_id,
                    result |-> revoked.ok ]
        /\ UNCHANGED <<ledgerVars, clockVars, evs, charging_stations, edge_nodes,
                       edge_node_keys, esps, hfl, urandom_count, sessionVars, threadVars, xmss>>

SpecCA ==
    /\ Init
    /\ [][ \/ \E subject_id \in {"ev1", "cs1"} : CaIssue(subject_id)
           \/ \E certificate \in PresentedCertificates : CaVerify(certificate)
           \/ \E subject_id \in {"ev1", "cs1"} : CaRevoke(subject_id)
           \/ /\ ticks < MaxCATicks
              /\ Tick(CertificateValidity + 1) ]_vars

(***************************************************************************)
(* The models in the protocol: two edge nodes are registered, their local  *)
(* models are updated from log data by update_fl_model, and the            *)
(* maintenance thread, started once both are registered (no session is     *)
(* ever open), seals the ledger and runs its aggregation and distribution. *)
(***************************************************************************)
\* transactions in the ledger's history up to which the foreground still calls
MaxModelTx == 5

SpecModels ==
    /\ Init
    /\ [][ \/ /\ Len(edge_node_keys) < 2
              /\ RegisterEntity("EN", <<"en1", "en2">>[Len(edge_node_keys) + 1])
           \/ /\ Len(submitted) < MaxModelTx
              /\ \E en_id \in {NoneValue, Some("en2")},
                    stats \in { NoneValue,
                                Some([ mean_vector |-> << <<1, 1>>, <<1, 1>> >>,
                                       cov_matrix |-> << << <<1, 1>>, <<0, 1>> >>,
                                                         << <<0, 1>>, <<1, 1>> >> >>,
                                       std_vector |-> << <<1, 1>>, <<1, 1>> >> ]),
                                Some([ mean_vector |-> << <<3, 1>>, <<3, 1>> >>,
                                       cov_matrix |-> << << <<4, 1>>, <<0, 1>> >>,
                                                         << <<0, 1>>, <<4, 1>> >> >>,
                                       std_vector |-> << <<2, 1>>, <<2, 1>> >> ]) } :
                    UpdateFlModel(stats, en_id)
           \/ /\ ~running
              /\ Len(edge_node_keys) = 2
              /\ Start
           \/ \E i \in DOMAIN threads :
                 \/ Loop(i) \/ MineCheck(i) \/ MbFill(i) \/ MbSeal(i) \/ MbClear(i)
                 \/ FlUpdate(i) \/ SwBegin(i) \/ SwIter(i) \/ Wake(i) ]_vars

(***************************************************************************)
(* start() and stop() called again and again on a protocol without         *)
(* entities, beside the maintenance threads the start() calls have         *)
(* spawned: nothing is pending and no session is open, so a cycle only     *)
(* tests, aggregates nothing and sleeps.                                   *)
(***************************************************************************)
\* start() calls that spawn a thread
MaxRestarts == 3

SpecRestart ==
    /\ Init
    /\ [][ \/ /\ stop_call.pc = "idle"
              /\ ~running => Len(threads) < MaxRestarts
              /\ Start
           \/ ThStop
           \/ JoinReturn
           \/ JoinTimeout
           \/ \E i \in DOMAIN threads :
                 \/ Loop(i) \/ MineCheck(i) \/ FlUpdate(i) \/ SwBegin(i) \/ SwIter(i)
                 \/ Wake(i) ]_vars

(***************************************************************************)
(* add_transaction beside add_transaction.  The sweep's end_session runs   *)
(* in the maintenance thread and calls add_transaction there, while the    *)
(* foreground calls it through every protocol operation; nothing locks the *)
(* ledger.  The thread's call is split where the other caller can get in   *)
(* between: after the append, before the length test.  The foreground      *)
(* registers one EV, one CS and one EN, opens a session, lets it expire,   *)
(* starts the thread and then reports model updates without data.          *)
(***************************************************************************)
\* transactions the foreground and the sweep submit together
MaxBatchTx == 15

\* end_session in the thread, add_transaction lines 22-30: the entry is appended
EsTxAppend(i) ==
    /\ At(i, "es_tx")
    /\ LET th == threads[i]
           info == th.session_info[1]
           tx == [ type |-> "session_end", session_id |-> Head(th.expired),
                   ev_id |-> info.ev_id, cs_id |-> info.cs_id,
                   duration |-> now - info.created_at, timestamp |-> now ]
       IN  /\ blockchain' = [blockchain EXCEPT !.pending_transactions =
                                                   Append(@, pending_entry(tx, now))]
           /\ submitted' = Append(submitted, pending_entry(tx, now))
    /\ Goto(i, "es_tx_check")
    /\ UNCHANGED <<entityVars, sessionVars, clockVars, xmss, ret,
                   running, maintenance_thread, stop_call>>

\* end_session in the thread, add_transaction lines 32-36: the length test and
\* the mine_block it leads to
EsTxCheck(i) ==
    /\ At(i, "es_tx_check")
    /\ blockchain' = IF Len(blockchain.pending_transactions) >= transaction_limit
                     THEN mine_block(blockchain, now) ELSE blockchain
    /\ Goto(i, "es_del")
    /\ UNCHANGED <<submitted, entityVars, sessionVars, clockVars, xmss, ret,
                   running, maintenance_thread, stop_call>>

SpecBatch ==
    /\ Init
    /\ [][ \/ /\ Len(submitted) < 3
              /\ RegisterEntity(<<"EV", "CS", "EN">>[Len(submitted) + 1],
                                <<"ev1", "cs1", "en1">>[Len(submitted) + 1])
           \/ /\ Len(submitted) = 3 /\ uuid_count = 0
              /\ IntraDomainAuthentication("ev1", "cs1")
           \/ /\ uuid_count = 1 /\ ticks = 0
              /\ Tick(SessionTTL + 1)
           \/ /\ ticks = 1 /\ threads = <<>>
              /\ Start
           \/ /\ running /\ Len(submitted) < MaxBatchTx
              /\ UpdateFlModel(NoneValue, NoneValue)
           \/ \E i \in DOMAIN threads :
                 \/ Loop(i) \/ MineCheck(i) \/ MbFill(i) \/ MbSeal(i) \/ MbClear(i)
                 \/ FlUpdate(i) \/ SwBegin(i) \/ SwIter(i) \/ EsCheck(i) \/ EsRead(i)
                 \/ EsDisconnect(i) \/ EsTxAppend(i) \/ EsTxCheck(i) \/ EsDel(i)
                 \/ Wake(i)
       ]_vars

(***************************************************************************)
(* C1: in every state reached from an empty ledger by add_transaction and  *)
(* mine_block calls, verify_chain() is true: every block but the first     *)
(* names the hash of the block before it, and every block's stored hash is *)
(* the hash recomputed over its body.                                      *)
(***************************************************************************)
C1_VerifyChainHolds ==
    /\ verify_chain(blockchain)
    /\ \A i \in 2..Len(blockchain.blocks) :
          blockchain.blocks[i].previous_hash = blockchain.blocks[i-1].hash
    /\ \A i \in 1..Len(blockchain.blocks) :
          blockchain.blocks[i].hash = sha256(block_string(blockchain.blocks[i]))

\* a chain of two blocks, the second sealed by add_transaction at the batch limit
C1_Witness ==
    /\ Len(blockchain.blocks) = 2
    /\ Len(blockchain.blocks[2].transactions) = transaction_limit
    /\ blockchain.blocks[2].previous_hash # ZeroHash
    /\ verify_chain(blockchain)

(***************************************************************************)
(* What the ledger holds, and which call a step is.                        *)
(***************************************************************************)
RECURSIVE BlockTxs(_)
BlockTxs(blocks) ==
    IF blocks = <<>> THEN <<>> ELSE Head(blocks).transactions \o BlockTxs(Tail(blocks))

\* every entry of the ledger: the sealed blocks' in order, then the pending ones
LedgerTxs(bc) == BlockTxs(bc.blocks) \o bc.pending_transactions

IsAuthFailureTx(e) == e.data.type = "authentication_failure"
AuthFailureTxs(bc) == SelectSeq(LedgerTxs(bc), IsAuthFailureTx)

SessionEndTxs(bc, session_id) ==
    { i \in 1..Len(LedgerTxs(bc)) :
        /\ LedgerTxs(bc)[i].data.type = "session_end"
        /\ LedgerTxs(bc)[i].data.session_id = session_id }

IsIntraCall(ev_id, cs_id) == IntraDomainAuthentication(ev_id, cs_id)
IsCrossCall(ev_id, cs_id) ==
    \E en_id \in ENArgs, score \in AnomalyScores :
        CrossDomainAuthentication(ev_id, cs_id, en_id, score)
AuthOps == {"intra_domain_authentication", "cross_domain_authentication"}
IsAuthCall == \E ev_id \in EVIds, cs_id \in CSIds :
                 IsIntraCall(ev_id, cs_id) \/ IsCrossCall(ev_id, cs_id)

(***************************************************************************)
(* C3: a cross_domain_authentication call whose anomaly score exceeds 0.8  *)
(* returns failure, creates no session, connects nothing and appends       *)
(* exactly one authentication_failure transaction carrying the reason and  *)
(* the score; a call whose score is at most 0.8, or that never computes a  *)
(* score, appends no authentication_failure transaction.                   *)
(***************************************************************************)
C3_AnomalyGate ==
    [][ \A ev_id \in EVIds, cs_id \in CSIds, en_id \in ENArgs, score \in AnomalyScores :
          CrossDomainAuthentication(ev_id, cs_id, en_id, score) =>
            IF ret'.anomaly_score = Some(score) /\ score > AnomalyThreshold
            THEN /\ ~ret'.ok
                 /\ ret'.session_id = NoneValue
                 /\ active_sessions' = active_sessions
                 /\ uuid_count' = uuid_count
                 /\ charging_stations' = charging_stations
                 /\ Len(AuthFailureTxs(blockchain')) = Len(AuthFailureTxs(blockchain)) + 1
                 /\ LET e == LedgerTxs(blockchain')[Len(LedgerTxs(blockchain'))]
                    IN  /\ e.data.type = "authentication_failure"
                        /\ e.data.reason = "anomaly_detected"
                        /\ e.data.anomaly_score = score
                        /\ e.data.ev_id = ev_id /\ e.data.cs_id = cs_id
            ELSE AuthFailureTxs(blockchain') = AuthFailureTxs(blockchain) ]_vars

\* a call was rejected at score 0.81 and the ledger holds its failure record
C3_Witness ==
    /\ ret.op = "cross_domain_authentication"
    /\ ret.anomaly_score = Some(81)
    /\ ~ret.ok
    /\ Len(AuthFailureTxs(blockchain)) = 1
    /\ AuthFailureTxs(blockchain)[1].data.anomaly_score = 81
    /\ active_sessions = EmptyDict

(***************************************************************************)
(* C4: an authentication creates a session only if the EV's request        *)
(* signature verifies under the EV's public key and the EV's certificate   *)
(* is valid, that is unexpired and signed by the CA.                       *)
(***************************************************************************)
\* signature is what sign produces over message with the key behind public_key
SignedBy(message, signature, public_key) ==
    /\ signature[2][1] = public_key[2]
    /\ signature[2][3] = message

CertificateValid(certificate, t) ==
    /\ certificate.data.expiry >= t
    /\ SignedBy(certificate.data, certificate.signature, ca.public_key)

C4_SessionOnlyIfVerified ==
    [][ \A ev_id \in EVIds, cs_id \in CSIds :
          ((IsIntraCall(ev_id, cs_id) \/ IsCrossCall(ev_id, cs_id)) /\ ret'.ok) =>
            LET ev == evs[ev_id]
                auth_request == create_authentication_request(ev, now)
            IN  /\ SignedBy(auth_request.request, auth_request.signature, ev.public_key)
                /\ CertificateValid(ev.certificate, now) ]_vars

(***************************************************************************)
(* C5: the active-session map gains an entry only in a step that is a      *)
(* successful intra- or cross-domain authentication, which adds exactly    *)
(* one entry, under a session id never drawn before; a failed              *)
(* authentication adds none.                                               *)
(***************************************************************************)
C5_SessionsOnlyFromSuccess ==
    [][ LET new == DOMAIN active_sessions' \ DOMAIN active_sessions
        IN  /\ new # {} => /\ IsAuthCall
                           /\ ret'.ok
                           /\ Cardinality(new) = 1
                           /\ \A s \in new : s > uuid_count /\ ret'.session_id = Some(s)
            /\ (ret'.op \in AuthOps /\ ret'.ok /\ IsAuthCall) => Cardinality(new) = 1
            /\ (ret'.op \in AuthOps /\ ~ret'.ok /\ IsAuthCall) => new = {} ]_vars

\* a second session was opened after the first one had been ended
C5_Witness ==
    /\ ret.op \in AuthOps
    /\ ret.ok
    /\ ret.session_id = Some(2)
    /\ DOMAIN active_sessions = {2}

(***************************************************************************)
(* C7: end_session(s) for an s that is not an active session fails with    *)
(* "Session not found" and leaves the active sessions, every charging      *)
(* station and the ledger as they were.                                    *)
(***************************************************************************)
C7_EndUnknownSession ==
    [][ \A s \in 1..(uuid_count + 1) :
          (EndSession(s) /\ s \notin DOMAIN active_sessions) =>
            /\ ~ret'.ok
            /\ ret'.message = "Session not found"
            /\ active_sessions' = active_sessions
            /\ charging_stations' = charging_stations
            /\ blockchain' = blockchain ]_vars

\* end_session was refused for an id never drawn while another session is active
C7_Witness ==
    /\ ret.op = "end_session"
    /\ ~ret.ok
    /\ ret.session_id > uuid_count
    /\ active_sessions # EmptyDict
    /\ \E cs_id \in DOMAIN charging_stations : charging_stations[cs_id].connected_evs # <<>>

(***************************************************************************)
(* C8: Ended is terminal.  A successful end_session(s) removes s from the  *)
(* active sessions and appends exactly one session_end transaction for s;  *)
(* an id that was drawn and is no longer active never becomes active       *)
(* again, its ledger keeps exactly one session_end record, and every later *)
(* end_session(s) fails with "Session not found" and appends nothing.      *)
(***************************************************************************)
C8_EndedIsTerminal ==
    /\ [](\A s \in 1..uuid_count :
            s \notin DOMAIN active_sessions => Cardinality(SessionEndTxs(blockchain, s)) = 1)
    /\ [][ \A s \in 1..uuid_count :
             /\ (EndSession(s) /\ s \in DOMAIN active_sessions) =>
                   /\ ret'.ok
                   /\ s \notin DOMAIN active_sessions'
                   /\ Cardinality(SessionEndTxs(blockchain', s)) = 1
                   /\ Len(LedgerTxs(blockchain')) = Len(LedgerTxs(blockchain)) + 1
             /\ s \notin DOMAIN active_sessions => s \notin DOMAIN active_sessions'
             /\ (EndSession(s) /\ s \notin DOMAIN active_sessions) =>
                   /\ ~ret'.ok
                   /\ ret'.message = "Session not found"
                   /\ LedgerTxs(blockchain') = LedgerTxs(blockchain) ]_vars

\* end_session was refused for a session that had been ended before
C8_Witness ==
    /\ ret.op = "end_session"
    /\ ~ret.ok
    /\ ret.session_id <= uuid_count
    /\ Cardinality(SessionEndTxs(blockchain, ret.session_id)) = 1

(***************************************************************************)
(* C2: with foreground calls and the maintenance thread's mine_block       *)
(* interleaved, the ledger is as if the calls had run one after another:   *)
(* whenever no thread is inside mine_block, every entry add_transaction    *)
(* was given is in the pending pool or in a sealed block exactly as often  *)
(* as it was added, nothing else is there, and block k of the chain        *)
(* (counting from 0) carries index k.                                      *)
(***************************************************************************)
CountIn(e, sq) == Cardinality({ k \in 1..Len(sq) : sq[k] = e })

C2_LedgerSerialized ==
    (\A i \in DOMAIN threads : threads[i].pc \notin MineBlockPcs) =>
        /\ Len(LedgerTxs(blockchain)) = Len(submitted)
        /\ \A k \in 1..Len(submitted) :
              CountIn(submitted[k], LedgerTxs(blockchain)) = CountIn(submitted[k], submitted)
        /\ \A k \in 1..Len(blockchain.blocks) : blockchain.blocks[k].index = k - 1

(***************************************************************************)
(* C6: when a maintenance cycle's sweep is over, whether it returned or    *)
(* failed, no session is active whose age at the sweep's reading of the    *)
(* clock exceeded 3600 s.                                                  *)
(***************************************************************************)
C6_ExpiredSessionsSwept ==
    [][ \A i \in DOMAIN threads :
          (threads[i].pc \in SweepPcs /\ threads'[i].pc \notin SweepPcs) =>
              \A s \in DOMAIN active_sessions' :
                  threads[i].current_time[1] - active_sessions'[s].created_at
                      <= SessionTTL ]_vars

(***************************************************************************)
(* C9: once stop() has returned, and until the next call, every            *)
(* maintenance thread that was started has exited.                         *)
(***************************************************************************)
C9_StoppedMeansExited ==
    ret.op = "stop" => \A i \in DOMAIN threads : threads[i].pc = "exited"

(***************************************************************************)
(* C10: a failure raised by a maintenance step never ends the maintenance  *)
(* thread.  A thread ends only at the loop test, seeing running false;     *)
(* and from the handler or the sleep of any cycle, failed or not, the      *)
(* thread reaches the start of another cycle unless the running flag has   *)
(* been cleared.                                                           *)
(***************************************************************************)
C10_FailuresNeverFatal ==
    /\ [][ \A i \in DOMAIN threads :
             (threads[i].pc # "exited" /\ threads'[i].pc = "exited")
                => (threads[i].pc = "loop" /\ ~running) ]_vars
    /\ \A i \in 1..MaxStarts :
         [](At(i, "except") \/ At(i, "sleep") => <>(At(i, "mine") \/ ~running))

\* sealing failed after the block was appended and before the pool was emptied;
\* the handler holds the error and no stop has been asked for
C10_Witness ==
    /\ running
    /\ At(1, "except")
    /\ threads[1].error = Some("Exception")
    /\ blockchain.blocks # <<>>
    /\ blockchain.pending_transactions = blockchain.blocks[Len(blockchain.blocks)].transactions

(***************************************************************************)
(* C11: accesses to shared state exclude one another.  While a maintenance *)
(* thread is in the middle of mine_block (the pool copied, the block not   *)
(* yet sealed or the pool not yet emptied) nobody else changes the ledger, *)
(* and while it is inside _cleanup_expired_sessions nobody else changes    *)
(* the active-session map: a step that changes either is that thread's own.*)
(***************************************************************************)
C11_MutualExclusion ==
    [][ \A i \in DOMAIN threads :
          /\ (threads[i].pc \in {"mb_seal", "mb_clear"} /\ blockchain' # blockchain)
                => threads'[i] # threads[i]
          /\ (threads[i].pc \in SweepPcs /\ active_sessions' # active_sessions)
                => threads'[i] # threads[i] ]_vars

(***************************************************************************)
(* C12: verify(m, s, pk) is true exactly when s is the signature a sign    *)
(* call produced over m with the private key that belongs to pk; it is     *)
(* false for a signature over another message or made with another key.    *)
(***************************************************************************)
C12_VerifyExact ==
    ret.op = "verify" =>
        (ret.result <=>
            \E j \in DOMAIN xmss.signed :
                /\ xmss.signed[j].key = ret.key
                /\ xmss.signed[j].message = ret.message
                /\ xmss.signed[j].signature = ret.signature)

(***************************************************************************)
(* C13: every sign call signs with the key's current one-time index and    *)
(* then increases that index by exactly one (no other key moves), so the   *)
(* indices used with one key strictly increase from call to call and no    *)
(* two signatures of one key carry the same index.                         *)
(***************************************************************************)
C13_IndexNeverReused ==
    /\ [][ xmss'.signed # xmss.signed =>
             LET call == xmss'.signed[Len(xmss'.signed)]
                 before == xmss.keys[call.key].private_key
             IN  /\ xmss'.signed = Append(xmss.signed, call)
                 /\ call.index = before.index
                 /\ call.signature = sha256(<<before.seed, before.index, call.message>>)
                 /\ xmss'.keys[call.key].private_key.index = before.index + 1
                 /\ xmss'.keys[call.key].private_key.seed = before.seed
                 /\ \A k \in DOMAIN xmss.keys \ {call.key} : xmss'.keys[k] = xmss.keys[k] ]_vars
    /\ [](\A i, j \in DOMAIN xmss.signed :
            (i < j /\ xmss.signed[i].key = xmss.signed[j].key)
                => /\ xmss.signed[i].index < xmss.signed[j].index
                   /\ xmss.signed[i].signature # xmss.signed[j].signature)

\* one key has signed three times, twice the same message
C13_Witness ==
    \E k \in DOMAIN xmss.keys :
        /\ xmss.keys[k].private_key.index = 3
        /\ \E i, j \in DOMAIN xmss.signed :
              /\ i < j
              /\ xmss.signed[i].key = k /\ xmss.signed[j].key = k
              /\ xmss.signed[i].message = xmss.signed[j].message

(***************************************************************************)
(* C14: a key signs at most 2^h messages: no signature is produced with an *)
(* index of 2^h or more, and no key's index exceeds 2^h (the sign call     *)
(* made at index 2^h must fail with KeyExhausted and leave the key alone). *)
(***************************************************************************)
C14_KeyExhausted ==
    /\ \A j \in DOMAIN xmss.signed : xmss.signed[j].index < 2 ^ xmss.h
    /\ \A k \in DOMAIN xmss.keys : xmss.keys[k].private_key.index <= 2 ^ xmss.h

(***************************************************************************)
(* C15: a block is sealed as soon as the pending pool reaches the batch    *)
(* limit of 10.  Whenever add_transaction returns, fewer than 10 entries   *)
(* are pending (and that count is what it returns); and as long as only    *)
(* add_transaction has sealed blocks, after N calls there are N div 10     *)
(* blocks of exactly 10 entries each and N mod 10 pending entries, holding *)
(* the N entries in call order.                                            *)
(***************************************************************************)
C15_SealAtBatchLimit ==
    /\ Len(blockchain.pending_transactions) < transaction_limit
    /\ ret.op = "add_transaction" => ret.result = Len(blockchain.pending_transactions)
    /\ ShortBlocks(blockchain) = 0 =>
          /\ Len(blockchain.blocks) = Len(submitted) \div transaction_limit
          /\ \A i \in DOMAIN blockchain.blocks :
                Len(blockchain.blocks[i].transactions) = transaction_limit
          /\ Len(blockchain.pending_transactions) = Len(submitted) % transaction_limit
          /\ LedgerTxs(blockchain) = submitted

\* eleven add_transaction calls and no direct mine_block: one block, one entry pending
C15_Witness ==
    /\ Len(submitted) = transaction_limit + 1
    /\ ShortBlocks(blockchain) = 0
    /\ Len(blockchain.blocks) = 1
    /\ Len(blockchain.pending_transactions) = 1
    /\ ret.op = "add_transaction"

(***************************************************************************)
(* C16: verify_chain() signals every alteration of a sealed block: when    *)
(* the transactions, timestamp, index, previous_hash or stored hash of any *)
(* block of the chain, the first block and the only block of a one-block   *)
(* chain included, has been altered, verify_chain() returns false.         *)
(***************************************************************************)
C16_TamperDetected ==
    ret.op = "tamper" => ret.result = FALSE

(***************************************************************************)
(* C17: a register_entity(kind, id) call with kind EV, CS, EN or ESP       *)
(* returns id; afterwards the registry of that kind maps id to an entity   *)
(* of that id and kind whose certificate names id and the entity's public  *)
(* key and is signed by the CA (which has recorded it); the ledger has     *)
(* gained exactly one entry, the registration of (kind, id); and for kind  *)
(* EN an edge model for id exists.  Hence every registered edge node has   *)
(* an edge model in every state.                                           *)
(***************************************************************************)
C17_RegisterEntity ==
    /\ [][ (ret'.op = "register_entity" /\ ~ret'.raised /\ submitted' # submitted) =>
             LET kind == ret'.entity_type
                 id == ret'.entity_id
                 registry == CASE kind = "EV" -> evs'
                               [] kind = "CS" -> charging_stations'
                               [] kind = "EN" -> edge_nodes'
                               [] kind = "ESP" -> esps'
                 certificate == registry[id].certificate
                 ledger == LedgerTxs(blockchain')
             IN  /\ kind \in {"EV", "CS", "EN", "ESP"}
                 /\ ret'.result = id
                 /\ id \in DOMAIN registry
                 /\ registry[id].id = id
                 /\ registry[id].entity_type = kind
                 /\ certificate.data.subject_id = id
                 /\ certificate.data.subject_public_key = registry[id].public_key
                 /\ SignedBy(certificate.data, certificate.signature, ca.public_key)
                 /\ ca'.issued_certificates[id] = certificate
                 /\ Len(ledger) = Len(LedgerTxs(blockchain)) + 1
                 /\ SubSeq(ledger, 1, Len(ledger) - 1) = LedgerTxs(blockchain)
                 /\ ledger[Len(ledger)].data =
                        [ type |-> "registration", entity_type |-> kind,
                          entity_id |-> id, timestamp |-> now ]
                 /\ kind = "EN" => id \in DOMAIN hfl'.edge_models ]_vars
    /\ [](DOMAIN edge_nodes \subseteq DOMAIN hfl.edge_models)

\* an edge node has just been registered
C17_Witness ==
    /\ ret.op = "register_entity"
    /\ ~ret.raised
    /\ ret.entity_type = "EN"
    /\ ret.result \in DOMAIN edge_nodes
    /\ ret.result \in DOMAIN hfl.edge_models
    /\ edge_nodes[ret.result].certificate.data.subject_id = ret.result

(***************************************************************************)
(* C18: register_entity with a kind outside {EV, CS, EN, ESP} fails (it    *)
(* raises, returning no id) and changes nothing: no registry gains an      *)
(* entity, the CA issues no certificate and its key index stays, no seed   *)
(* is drawn, no model is created and the ledger gains no entry.  Only such *)
(* a call fails.                                                           *)
(***************************************************************************)
C18_UnsupportedKind ==
    [][ ret'.op = "register_entity" =>
          /\ ret'.raised <=> ret'.entity_type \notin {"EV", "CS", "EN", "ESP"}
          /\ ret'.raised =>
                /\ "result" \notin DOMAIN ret'
                /\ UNCHANGED <<evs, charging_stations, edge_nodes, edge_node_keys, esps,
                               ca, hfl, urandom_count, blockchain, submitted,
                               active_sessions>> ]_vars

\* the call has just failed in a system that already holds an entity and a certificate
C18_Witness ==
    /\ ret.op = "register_entity"
    /\ ret.raised
    /\ ret.entity_type = "XX"
    /\ DOMAIN evs # {}
    /\ ca.private_key.index = 1
    /\ Len(submitted) = 1

(***************************************************************************)
(* C19: an entity once registered stays registered, and get_entity_status  *)
(* (kind, id) succeeds for it with a snapshot whose id is id and whose     *)
(* type is kind; for an id that is not registered under that kind (another *)
(* kind's id, an id never registered, an unknown kind) it returns no       *)
(* snapshot but a not-found result.                                        *)
(***************************************************************************)
C19_StatusMatchesRegistration ==
    /\ [](ret.op = "get_entity_status" =>
            LET kind == ret.entity_type
                registry == CASE kind = "EV" -> evs
                              [] kind = "CS" -> charging_stations
                              [] kind = "EN" -> edge_nodes
                              [] kind = "ESP" -> esps
                              [] OTHER -> EmptyDict
            IN  /\ ~ret.raised
                /\ IF ret.entity_id \in DOMAIN registry
                   THEN /\ ret.status # NoneValue
                        /\ ret.status[1].id = ret.entity_id
                        /\ ret.status[1].type = kind
                   ELSE /\ ret.status = NoneValue
                        /\ kind \in {"EV", "CS", "EN", "ESP"} =>
                              ret.message \in {"EV not found", "Charging station not found",
                                               "Edge node not found",
                                               "Electric service provider not found"})
    /\ [][ /\ DOMAIN evs \subseteq DOMAIN evs'
           /\ DOMAIN charging_stations \subseteq DOMAIN charging_stations'
           /\ DOMAIN edge_nodes \subseteq DOMAIN edge_nodes'
           /\ DOMAIN esps \subseteq DOMAIN esps' ]_vars

\* the status of a registered EV with an active session has been returned while
\* an id of another kind is not known as an EV
C19_Witness ==
    /\ ret.op = "get_entity_status"
    /\ ret.entity_type = "EV"
    /\ ret.status # NoneValue
    /\ ret.status[1].active_sessions # <<>>
    /\ get_entity_status("EV", "cs1").status = NoneValue
    /\ get_entity_status("CS", "cs1").status # NoneValue

(***************************************************************************)
(* C20: a call of intra_domain_authentication, cross_domain_authentication,*)
(* issue_verifiable_credential, end_session or get_entity_status that      *)
(* names an EV, CS, EN or session which is not registered or not active    *)
(* returns a failure result and leaves the entity registries, the active   *)
(* sessions and the ledger as they were.                                   *)
(***************************************************************************)
C20_LookupFailuresChangeNothing ==
    [][ LET op == ret'.op
            unknown ==
              \/ /\ op \in {"intra_domain_authentication", "cross_domain_authentication",
                            "issue_verifiable_credential"}
                 /\ ret'.ev_id \notin DOMAIN evs
              \/ /\ op \in {"intra_domain_authentication", "cross_domain_authentication"}
                 /\ ret'.cs_id \notin DOMAIN charging_stations
              \/ /\ op \in {"cross_domain_authentication", "issue_verifiable_credential"}
                 /\ IF ret'.en_id = NoneValue THEN DOMAIN edge_nodes = {}
                    ELSE ret'.en_id[1] \notin DOMAIN edge_nodes
              \/ /\ op = "end_session"
                 /\ ret'.session_id \notin DOMAIN active_sessions
              \/ /\ op = "get_entity_status"
                 /\ ret'.status = NoneValue
        IN  unknown =>
              /\ op = "get_entity_status" \/ ~ret'.ok
              /\ UNCHANGED <<evs, charging_stations, edge_nodes, edge_node_keys, esps,
                             active_sessions, blockchain, submitted>> ]_vars

(***************************************************************************)
(* C21 as stated: issue_verifiable_credential(ev_id, en_id) succeeds       *)
(* exactly when the EV is registered and an edge node can be chosen (the   *)
(* given one is registered, or none is given and one is registered: then   *)
(* the first registered one is used); on success the EV holds a credential *)
(* made out to ev_id by the chosen node and the ledger has gained exactly  *)
(* one credential_issuance entry; for a registered EV with no edge node    *)
(* registered it fails with "No edge nodes available"; a failure changes   *)
(* neither the EVs nor the ledger.                                         *)
(***************************************************************************)
C21_IssueCredential ==
    [][ (ret'.op = "issue_verifiable_credential" /\ <<ret, submitted>>' # <<ret, submitted>>) =>
          LET ev_id == ret'.ev_id
              en_id == ret'.en_id
              choosable == IF en_id = NoneValue THEN DOMAIN edge_nodes # {}
                           ELSE en_id[1] \in DOMAIN edge_nodes
              chosen == IF en_id = NoneValue THEN edge_node_keys[1] ELSE en_id[1]
              ledger == LedgerTxs(blockchain')
          IN  /\ ret'.ok <=> (ev_id \in DOMAIN evs /\ choosable)
              /\ ret'.ok =>
                    /\ evs'[ev_id].verifiable_credential # NoneValue
                    /\ evs'[ev_id].verifiable_credential[1].credential.subject_id = ev_id
                    /\ evs'[ev_id].verifiable_credential[1].credential.issuer_id = chosen
                    /\ Len(ledger) = Len(LedgerTxs(blockchain)) + 1
                    /\ SubSeq(ledger, 1, Len(ledger) - 1) = LedgerTxs(blockchain)
                    /\ ledger[Len(ledger)].data.type = "credential_issuance"
                    /\ ledger[Len(ledger)].data.ev_id = ev_id
                    /\ ledger[Len(ledger)].data.en_id = chosen
              /\ (ev_id \in DOMAIN evs /\ DOMAIN edge_nodes = {}) =>
                    ret'.message = "No edge nodes available"
              /\ ~ret'.ok => UNCHANGED <<evs, blockchain, submitted>> ]_vars

(***************************************************************************)
(* C21 amended: as above, but the failure names the first lookup that      *)
(* fails: "EV not found" for an unregistered EV; otherwise "No edge nodes  *)
(* available" when no node is given and none is registered; otherwise      *)
(* "Edge node not found" when the given node is not registered, also when  *)
(* no node is registered at all.                                           *)
(***************************************************************************)
C21_IssueCredentialAmended ==
    [][ (ret'.op = "issue_verifiable_credential" /\ <<ret, submitted>>' # <<ret, submitted>>) =>
          LET ev_id == ret'.ev_id
              en_id == ret'.en_id
              choosable == IF en_id = NoneValue THEN DOMAIN edge_nodes # {}
                           ELSE en_id[1] \in DOMAIN edge_nodes
              chosen == IF en_id = NoneValue THEN edge_node_keys[1] ELSE en_id[1]
              ledger == LedgerTxs(blockchain')
          IN  /\ ret'.ok <=> (ev_id \in DOMAIN evs /\ choosable)
              /\ ret'.ok =>
                    /\ evs'[ev_id].verifiable_credential # NoneValue
                    /\ evs'[ev_id].verifiable_credential[1].credential.subject_id = ev_id
                    /\ evs'[ev_id].verifiable_credential[1].credential.issuer_id = chosen
                    /\ Len(ledger) = Len(LedgerTxs(blockchain)) + 1
                    /\ SubSeq(ledger, 1, Len(ledger) - 1) = LedgerTxs(blockchain)
                    /\ ledger[Len(ledger)].data.type = "credential_issuance"
                    /\ ledger[Len(ledger)].data.ev_id = ev_id
                    /\ ledger[Len(ledger)].data.en_id = chosen
              /\ ~ret'.ok =>
                    /\ ret'.message =
                          IF ev_id \notin DOMAIN evs THEN "EV not found"
                          ELSE IF en_id = NoneValue THEN "No edge nodes available"
                          ELSE "Edge node not found"
                    /\ UNCHANGED <<evs, blockchain, submitted>> ]_vars

\* a credential has just been issued by the default edge node, and earlier calls failed
C21_Witness ==
    /\ ret.op = "issue_verifiable_credential"
    /\ ret.ok
    /\ ret.en_id = NoneValue
    /\ evs[ret.ev_id].verifiable_credential # NoneValue
    /\ evs[ret.ev_id].verifiable_credential[1].credential.issuer_id = edge_node_keys[1]

(***************************************************************************)
(* C22: whenever cross_domain_authentication creates a session, the EV     *)
(* holds a credential that has not expired: its expiry lies after the      *)
(* current time.  An EV whose stored credential has expired gets no        *)
(* session on the strength of it.                                          *)
(***************************************************************************)
C22_CredentialUnexpired ==
    [][ (ret'.op = "cross_domain_authentication" /\ active_sessions' # active_sessions) =>
          /\ evs'[ret'.ev_id].verifiable_credential # NoneValue
          /\ evs'[ret'.ev_id].verifiable_credential[1].credential.expiry > now ]_vars

(***************************************************************************)
(* The children an aggregation averages (the listed models that exist and  *)
(* are trained, in list order) and the parent it writes.                   *)
(***************************************************************************)
IsAggregation(r) == r.op \in {"aggregate_local_models", "aggregate_edge_models"}

AggregatedChildren(h, r) ==
    LET models == IF r.op = "aggregate_local_models" THEN h.local_models ELSE h.edge_models
        ids == IF r.ids # NoneValue THEN r.ids[1]
               ELSE IF r.op = "aggregate_edge_models" THEN h.edge_keys
               ELSE SelectIds(h.local_keys, { k \in DOMAIN h.local_models : k[1] = r.edge_id })
        chosen == SelectIds(ids, { k \in DOMAIN models :
                                     /\ models[k].mean_vector # NoneValue
                                     /\ models[k].cov_matrix # NoneValue })
    IN  [ j \in 1..Len(chosen) |-> models[chosen[j]] ]

AggregationParent(h, r) ==
    IF r.op = "aggregate_edge_models" THEN h.global_model[1] ELSE h.edge_models[r.edge_id]

(***************************************************************************)
(* C23: a successful aggregation sets the parent's mean vector, its        *)
(* covariance and its standard deviations to the elementwise mean over     *)
(* exactly the trained children, its threshold to the mean of their        *)
(* thresholds and its version to the largest of their versions.            *)
(***************************************************************************)
C23_AggregateIsMean ==
    [][ (IsAggregation(ret') /\ ret'.result) =>
          LET children == AggregatedChildren(hfl, ret')
              n == Len(children)
              parent == AggregationParent(hfl', ret')
          IN  /\ n > 0
              /\ parent.mean_vector =
                    Some(VectorMean([ j \in 1..n |-> children[j].mean_vector[1] ]))
              /\ parent.std_vector =
                    Some(VectorMean([ j \in 1..n |-> children[j].std_vector[1] ]))
              /\ parent.cov_matrix =
                    Some([ row \in 1..2 |->
                             VectorMean([ j \in 1..n |-> children[j].cov_matrix[1][row] ]) ])
              /\ parent.threshold = RatMean([ j \in 1..n |-> children[j].threshold ])
              /\ parent.version = SeqMax([ j \in 1..n |-> children[j].version ]) ]_vars

(***************************************************************************)
(* C24: an aggregation fails exactly when its parent is missing or none of *)
(* the listed children is trained (no children at all included), and a     *)
(* failed aggregation leaves every model, the parent included, as it was.  *)
(***************************************************************************)
C24_AggregateNothing ==
    [][ IsAggregation(ret') =>
          /\ ret'.result <=>
                /\ ret'.op = "aggregate_local_models" => ret'.edge_id \in DOMAIN hfl.edge_models
                /\ ret'.op = "aggregate_edge_models" => hfl.global_model # NoneValue
                /\ AggregatedChildren(hfl, ret') # <<>>
          /\ ~ret'.result => hfl' = hfl ]_vars

\* an aggregation into a trained global model has just failed for want of children
C24_Witness ==
    /\ ret.op = "aggregate_edge_models"
    /\ ~ret.result
    /\ ret.ids = Some(<<>>)
    /\ hfl.global_model[1].mean_vector # NoneValue
    /\ hfl.global_model[1].version = MaxFLVersion

(***************************************************************************)
(* C25: distribute_global_model with a trained global model gives every    *)
(* listed edge model that exists the global model's mean, covariance,      *)
(* standard deviations, threshold and version, leaves the other models     *)
(* alone and returns the number of models it updated; with an untrained    *)
(* global model it returns 0 and changes no model.                         *)
(***************************************************************************)
C25_DistributeDown ==
    [][ ret'.op = "distribute_global_model" =>
          LET ids == IF ret'.ids = NoneValue THEN hfl.edge_keys ELSE ret'.ids[1]
              global == hfl.global_model[1]
              targets == { k \in DOMAIN hfl.edge_models : InSeq(k, ids) }
          IN  IF global.mean_vector # NoneValue /\ global.cov_matrix # NoneValue
              THEN /\ ret'.result = Cardinality(targets)
                   /\ \A k \in targets :
                         /\ hfl'.edge_models[k].mean_vector = global.mean_vector
                         /\ hfl'.edge_models[k].cov_matrix = global.cov_matrix
                         /\ hfl'.edge_models[k].std_vector = global.std_vector
                         /\ hfl'.edge_models[k].threshold = global.threshold
                         /\ hfl'.edge_models[k].version = global.version
                   /\ \A k \in DOMAIN hfl.edge_models \ targets :
                         hfl'.edge_models[k] = hfl.edge_models[k]
                   /\ hfl'.global_model = hfl.global_model
                   /\ hfl'.local_models = hfl.local_models
              ELSE /\ ret'.result = 0
                   /\ hfl' = hfl ]_vars

\* the global model, aggregated from children of version 2, has just been given to
\* both edge models
C25_Witness ==
    /\ ret.op = "distribute_global_model"
    /\ ret.result = 2
    /\ hfl.global_model[1].version = MaxFLVersion
    /\ \A k \in {"en1", "en2"} :
          /\ hfl.edge_models[k].mean_vector = hfl.global_model[1].mean_vector
          /\ hfl.edge_models[k].version = MaxFLVersion

(***************************************************************************)
(* C26: aggregation is idempotent: the same successful aggregation run     *)
(* again at once, the children being what they were, leaves the parent's   *)
(* mean, covariance, standard deviations, threshold and version as the     *)
(* first run left them.                                                    *)
(***************************************************************************)
C26_AggregateIdempotent ==
    [][ (IsAggregation(ret) /\ ret.result /\ ret' = ret) =>
          LET before == AggregationParent(hfl, ret)
              after == AggregationParent(hfl', ret)
          IN  /\ after.mean_vector = before.mean_vector
              /\ after.cov_matrix = before.cov_matrix
              /\ after.std_vector = before.std_vector
              /\ after.threshold = before.threshold
              /\ after.version = before.version ]_vars

\* two trained local models with different means have just been aggregated
C26_Witness ==
    /\ ret.op = "aggregate_local_models"
    /\ ret.result
    /\ Len(AggregatedChildren(hfl, ret)) = 2
    /\ AggregatedChildren(hfl, ret)[1].mean_vector # AggregatedChildren(hfl, ret)[2].mean_vector
    /\ hfl.edge_models[ret.edge_id].mean_vector = Some(<< <<2, 1>>, <<2, 1>> >>)

(***************************************************************************)
(* C27: set_model_parameters(get_model_parameters()) on a model, trained   *)
(* or not, leaves its mean, covariance, standard deviations, threshold,    *)
(* version and trained status as they were, so predict gives the same      *)
(* scores before and after.                                                *)
(***************************************************************************)
C27_ParametersRoundTrip ==
    [][ ret'.op = "set_get" =>
          LET before == hfl.edge_models[ret'.edge_id]
              after == hfl'.edge_models[ret'.edge_id]
          IN  /\ after.mean_vector = before.mean_vector
              /\ after.cov_matrix = before.cov_matrix
              /\ after.std_vector = before.std_vector
              /\ after.threshold = before.threshold
              /\ after.version = before.version
              /\ get_model_parameters(after).trained = get_model_parameters(before).trained
              /\ ret'.result = get_model_parameters(before).trained
              /\ predict(after, <<"r1", "r2">>) = predict(before, <<"r1", "r2">>) ]_vars

\* the parameters of a trained model whose covariance differs from its standard
\* deviations have just been read and written back
C27_Witness ==
    /\ ret.op = "set_get"
    /\ ret.result
    /\ hfl.edge_models[ret.edge_id].cov_matrix # NoneValue
    /\ hfl.edge_models[ret.edge_id].cov_matrix[1][1][1] # hfl.edge_models[ret.edge_id].std_vector[1][1]

(***************************************************************************)
(* C28: predict returns one score per record; a model without a mean or a  *)
(* covariance (never trained, never given trained parameters) scores every *)
(* record 1.0, and get_model_parameters reports trained exactly for the    *)
(* models whose predict, given records, computes scores instead.           *)
(***************************************************************************)
C28_UntrainedIsMaximal ==
    ret.op = "predict" =>
        LET m == hfl.edge_models[ret.edge_id]
        IN  /\ Len(ret.scores) = Len(ret.data)
            /\ (m.mean_vector = NoneValue \/ m.cov_matrix = NoneValue) =>
                  \A i \in 1..Len(ret.scores) : ret.scores[i] = <<1, 1>>
            /\ Len(ret.data) > 0 =>
                  (get_model_parameters(m).trained <=>
                     \A i \in 1..Len(ret.scores) : Len(ret.scores[i]) = 3)

\* an untrained model has just scored two records
C28_Witness ==
    /\ ret.op = "predict"
    /\ Len(ret.data) = 2
    /\ ret.scores = << <<1, 1>>, <<1, 1>> >>
    /\ ~get_model_parameters(hfl.edge_models[ret.edge_id]).trained

(***************************************************************************)
(* C29: verify_certificate answers (false, expired) for a certificate      *)
(* whose expiry lies in the past; otherwise it answers false, with another *)
(* message, when the signature is not one the CA's key makes over the      *)
(* certificate's data; it answers success only when both checks pass.      *)
(***************************************************************************)
C29_VerifyCertificate ==
    [][ (ret'.op = "verify_certificate" /\ now' = now) =>
          LET certificate == ret'.certificate
              signed_by_ca ==
                  \E i \in 0..MaxCAIssues :
                      certificate.signature =
                          XMSS_sign(certificate.data, [ca.private_key EXCEPT !.index = i])
          IN  IF certificate.data.expiry < now
              THEN ret'.result = <<FALSE, "Certificate expired">>
              ELSE IF ~signed_by_ca
              THEN /\ ret'.result[1] = FALSE
                   /\ ret'.result[2] # "Certificate expired"
              ELSE ret'.result = <<TRUE, "Certificate valid">> ]_vars

\* what the authority holds about one subject
CertificateView(authority, subject_id) ==
    IF subject_id \in DOMAIN authority.issued_certificates
    THEN Some(authority.issued_certificates[subject_id])
    ELSE NoneValue

(***************************************************************************)
(* C30: after a successful revoke_certificate(s) the authority's state     *)
(* tells s from a subject that was never issued a certificate: what it     *)
(* holds about s differs from what a new authority holds about s; a        *)
(* revoke_certificate for a subject without a certificate returns false    *)
(* and changes nothing.                                                    *)
(***************************************************************************)
C30_RevocationRecorded ==
    [][ ret'.op = "revoke_certificate" =>
          IF ret'.result
          THEN CertificateView(ca', ret'.subject_id) #
                  CertificateView(NewCertificateAuthority(1), ret'.subject_id)
          ELSE ca' = ca ]_vars

(***************************************************************************)
(* C32: the ledger keeps the order of submission.  In every state reached  *)
(* by add_transaction and mine_block calls one after another, the entries  *)
(* of the sealed blocks in block order, followed by the pending entries,   *)
(* are the entries of all add_transaction calls in call order; and every   *)
(* sealing adds one block that holds the whole pending pool (with the      *)
(* entry just added, when add_transaction seals) and leaves nothing        *)
(* pending.                                                                *)
(***************************************************************************)
C32_SubmissionOrder ==
    /\ [](LedgerTxs(blockchain) = submitted)
    /\ [][ Len(blockchain'.blocks) # Len(blockchain.blocks) =>
             /\ Len(blockchain'.blocks) = Len(blockchain.blocks) + 1
             /\ SubSeq(blockchain'.blocks, 1, Len(blockchain.blocks)) = blockchain.blocks
             /\ blockchain'.blocks[Len(blockchain'.blocks)].transactions =
                   IF ret'.op = "add_transaction"
                   THEN Append(blockchain.pending_transactions, submitted'[Len(submitted')])
                   ELSE blockchain.pending_transactions
             /\ blockchain'.pending_transactions = <<>> ]_vars

\* a block of one entry sealed by mine_block, then a full one sealed by the tenth
\* add_transaction after it
C32_Witness ==
    /\ Len(blockchain.blocks) = 2
    /\ Len(blockchain.blocks[1].transactions) = 1
    /\ Len(blockchain.blocks[2].transactions) = transaction_limit
    /\ ret.op = "add_transaction"
    /\ blockchain.pending_transactions = <<>>
    /\ LedgerTxs(blockchain) = submitted

(***************************************************************************)
(* C35: mine_block with nothing pending is a no-op: it returns False and   *)
(* leaves the sealed blocks, the pending pool and the next block's         *)
(* template (index, previous_hash) as they were; so no sealed block is     *)
(* without transactions.                                                   *)
(***************************************************************************)
C35_MineNothing ==
    /\ [](\A i \in DOMAIN blockchain.blocks : blockchain.blocks[i].transactions # <<>>)
    /\ [][ (ret'.op = "mine_block" /\ now' = now /\ blockchain.pending_transactions = <<>>) =>
             /\ ret'.result = FALSE
             /\ blockchain'.blocks = blockchain.blocks
             /\ blockchain'.pending_transactions = <<>>
             /\ blockchain'.current_block.index = blockchain.current_block.index
             /\ blockchain'.current_block.previous_hash = blockchain.current_block.previous_hash
             /\ blockchain' = blockchain ]_vars

\* mine_block has just returned False on a chain that already has a block
C35_Witness ==
    /\ ret.op = "mine_block"
    /\ ret.pending = 0
    /\ ret.result = FALSE
    /\ Len(blockchain.blocks) = 1
    /\ blockchain.pending_transactions = <<>>
    /\ blockchain.current_block.index = 1

(***************************************************************************)
(* C33: the score that gates cross_domain_authentication is the score the  *)
(* chosen edge node's edge model gives the attempt; so whenever that model *)
(* is untrained the score is 1.0 and the call is rejected with an          *)
(* authentication_failure transaction.                                     *)
(***************************************************************************)
C33_ScoreFromEdgeModel ==
    [][ (ret'.op = "cross_domain_authentication" /\ ret'.anomaly_score # NoneValue
           /\ submitted' # submitted) =>
          LET chosen == SelectEdgeNode(ret'.en_id)
              edge_model == hfl.edge_models[chosen]
              attempt == <<ret'.ev_id, ret'.cs_id>>
          IN  ~get_model_parameters(edge_model).trained =>
                 /\ predict(edge_model, <<attempt>>) = << <<1, 1>> >>
                 /\ ~ret'.ok
                 /\ submitted'[Len(submitted')].data.type = "authentication_failure"
                 /\ ret'.anomaly_score = Some(100) ]_vars

(***************************************************************************)
(* C34: the aggregation and distribution of a maintenance cycle, run with  *)
(* no foreground call in between: if before it the edge model of some      *)
(* registered edge node is trained, or the global model is, then after it  *)
(* the global model is trained and the edge model of every registered edge *)
(* node, trained before or not, has the global model's mean, covariance,   *)
(* standard deviations, threshold and version.                             *)
(***************************************************************************)
C34_CycleSpreadsModel ==
    [][ \A i \in DOMAIN threads :
          (threads[i].pc = "fl" /\ threads'[i].pc = "sw_begin") =>
             LET global == hfl'.global_model[1]
             IN  (\/ get_model_parameters(hfl.global_model[1]).trained
                  \/ \E e \in DOMAIN edge_nodes : get_model_parameters(hfl.edge_models[e]).trained)
                 => /\ get_model_parameters(global).trained
                    /\ \A e \in DOMAIN edge_nodes :
                          /\ hfl'.edge_models[e].mean_vector = global.mean_vector
                          /\ hfl'.edge_models[e].cov_matrix = global.cov_matrix
                          /\ hfl'.edge_models[e].std_vector = global.std_vector
                          /\ hfl'.edge_models[e].threshold = global.threshold
                          /\ hfl'.edge_models[e].version = global.version ]_vars

\* only en1 has ever had a local model, and the cycle's aggregation and distribution
\* have just left en2's edge model trained like the global one
C34_Witness ==
    /\ \E i \in DOMAIN threads : threads[i].pc = "sw_begin"
    /\ DOMAIN edge_nodes = {"en1", "en2"}
    /\ DOMAIN hfl.local_models = { <<"en1">> }
    /\ get_model_parameters(hfl.global_model[1]).trained
    /\ hfl.edge_models["en2"].mean_vector = hfl.global_model[1].mean_vector
    /\ hfl.edge_models["en2"].version = hfl.global_model[1].version
    /\ hfl.global_model[1].version = 3

(***************************************************************************)
(* C39: the version of a model never decreases: whatever train,            *)
(* update_fl_model, aggregation or distribution does, the global model,    *)
(* every edge model and every local model has a version at least as large  *)
(* afterwards as before.                                                   *)
(***************************************************************************)
C39_VersionsNeverDecrease ==
    [][ /\ hfl'.global_model[1].version >= hfl.global_model[1].version
        /\ \A e \in DOMAIN hfl.edge_models :
              hfl'.edge_models[e].version >= hfl.edge_models[e].version
        /\ \A l \in DOMAIN hfl.local_models :
              hfl'.local_models[l].version >= hfl.local_models[l].version ]_vars

(***************************************************************************)
(* C36: the connections are those of the active sessions: in every state,  *)
(* a vehicle is in a charging station's connected_evs exactly when some    *)
(* active session is between that vehicle and that station; so a vehicle   *)
(* stays connected while one of its sessions at the station is active.     *)
(***************************************************************************)
C36_ConnectedIffSession ==
    \A cs_id \in DOMAIN charging_stations, ev_id \in DOMAIN evs :
        InSeq(ev_id, charging_stations[cs_id].connected_evs)
        <=> \E s \in DOMAIN active_sessions :
               /\ active_sessions[s].ev_id = ev_id
               /\ active_sessions[s].cs_id = cs_id

(***************************************************************************)
(* C37: a session is ended exactly once, also when the maintenance sweep   *)
(* and a foreground end_session work on the same expired session at the    *)
(* same time: at most one session_end transaction is ever passed to the    *)
(* ledger for a session id, and exactly one for a session id that is no    *)
(* longer active.                                                          *)
(***************************************************************************)
C37_EndedExactlyOnce ==
    \A s \in 1..uuid_count :
        LET ends == Cardinality({ k \in 1..Len(submitted) :
                                    /\ submitted[k].data.type = "session_end"
                                    /\ submitted[k].data.session_id = s })
        IN  /\ ends <= 1
            /\ s \notin DOMAIN active_sessions => ends = 1

(***************************************************************************)
(* C38: at most one maintenance thread is alive in its loop at any time,   *)
(* whatever start() and stop() calls are made: a start() while running     *)
(* returns False and spawns nothing, and a start() after a stop() never    *)
(* leaves two maintenance loops alive together.                            *)
(***************************************************************************)
C38_OneMaintenanceLoop ==
    /\ [](Cardinality({ i \in DOMAIN threads : threads[i].pc # "exited" }) <= 1)
    /\ [][ (running /\ ret'.op = "start" /\ ret' # ret) =>
             /\ ret'.result = FALSE
             /\ threads' = threads
             /\ maintenance_thread' = maintenance_thread ]_vars

(***************************************************************************)
(* C31: while the maintenance thread runs, fairly scheduled, and no stop   *)
(* is signalled, every transaction passed to add_transaction is eventually *)
(* in a sealed block, however few are pending: from any state in which the *)
(* k-th transaction has been submitted, a state follows in which a sealed  *)
(* block holds it, or the protocol is no longer running.                   *)
(***************************************************************************)
C31_EventuallySealed ==
    \A k \in 1..MaxFaultTx :
        (Len(submitted) >= k /\ running)
        ~> \/ ~running
           \/ /\ Len(submitted) >= k
              /\ \E b \in DOMAIN blockchain.blocks :
                    InSeq(submitted[k], blockchain.blocks[b].transactions)

(***************************************************************************)
(* C40: in every reachable state every sealed block holds at most          *)
(* transaction_limit (10) transactions, also when add_transaction calls    *)
(* of the foreground and of the maintenance thread's sweep interleave with *)
(* each other and with the thread's mine_block.                            *)
(***************************************************************************)
C40_BlockWithinLimit ==
    \A i \in DOMAIN blockchain.blocks :
        Len(blockchain.blocks[i].transactions) <= transaction_limit

====
